---------------------------- MODULE Spec2Model ----------------------------
(***************************************************************************)
(* State-machine model of plugins/modules/s3_object.py: one invocation of  *)
(* main() against a remote bucket.  Every action is one step of a handler  *)
(* up to and including one remote call and the handling of its response.   *)
(* module.exit_json / module.fail_json end the invocation (they exit the   *)
(* process); an exception that no handler catches ends it as a crash.      *)
(***************************************************************************)
EXTENDS Integers, Sequences, FiniteSets, TLC

VARIABLES
    params,      \* module.params and module.check_mode: the request, never modified
    s3_vars,     \* the facts populate_facts / validate_bucket add to the request
    remote,      \* the bucket, the target object, its tags, the access policy
    local_file,  \* the local path the request names (src of put, dest of get)
    pc,          \* the position of the invocation in the code
    frame,       \* local variables of the running functions
    result,      \* what the invocation emitted when it ended
    calls,       \* the remote calls issued by the invocation, in order
    warnings,    \* module.warn messages of the invocation
    history,     \* results and calls of the invocations that ended before this one
    faultsLeft   \* how many more generic backend faults the environment may inject

vars == <<params, s3_vars, remote, local_file, pc, frame, result, calls,
          warnings, history, faultsLeft>>

---------------------------------------------------------------------------
(* Bounds of the model *)

MaxFaults == 1
MaxTime == 1
MaxRuns == 2
MaxRetries == 1
MaxLen == 2
PageSize == 2

(* Program constants *)

\* The loop of line 1115 one pass short.
MaxPolls_Short == 12 - 1

MaxPolls == 12
SleepInterval == 5

---------------------------------------------------------------------------
(* Value domains *)

\* A text is a sequence of code points, a blob a sequence of bytes.  The code
\* points taken are one of each length of UTF-8 encoding: "h", e-acute, the
\* euro sign.
CodePoints == {104, 233, 8364}

\* None where a text or a blob is expected.
NoContent == <<-1>>

\* The inline texts of the requests.
Contents == {<<104, 233>>, <<8364>>}
Times == 0..MaxTime
TagKeys == {"a", "b"}
TagValues == {"1", "2"}
ObjKey == "k"

\* A Python dict of tags: a function from a subset of the tag keys.
EmptyDict == [k \in {} |-> "1"]
Dicts == UNION {[D -> TagValues] : D \in SUBSET TagKeys}
Dict1(k, v) == [x \in {k} |-> v]

object_canned_acl ==
    {"private", "public-read", "public-read-write", "aws-exec-read",
     "authenticated-read", "bucket-owner-read", "bucket-owner-full-control"}
bucket_canned_acl ==
    {"private", "public-read", "public-read-write", "authenticated-read"}

IGNORE_S3_DROP_IN_EXCEPTIONS == {"XNotImplemented", "NotImplemented"}

\* An ETag: how the backend derived it, and the content it was derived from.
\* "md5" is the plain digest, "multipart" the digest over the upload's parts,
\* "opaque" an ETag that is no digest of the content (e.g. SSE-KMS).
EtagKinds == {"md5", "multipart", "opaque"}
NoEtag == [kind |-> "None", of |-> "None"]
Etag(kind, c) == [kind |-> kind, of |-> c]

NoObject == [exists |-> FALSE, content |-> NoContent, ETag |-> NoEtag, LastModified |-> 0]
Object(c, kind, t) ==
    [exists |-> TRUE, content |-> c, ETag |-> Etag(kind, c), LastModified |-> t]

NoFile == [exists |-> FALSE, content |-> NoContent, mtime |-> 0]
File(c, t) == [exists |-> TRUE, content |-> c, mtime |-> t]

---------------------------------------------------------------------------
(* Helpers of the module *)

\* boto3_tag_list_to_ansible_dict: [{Key, Value}, ...] -> {Key: Value}
boto3_tag_list_to_ansible_dict(tagset) ==
    [k \in {t.Key : t \in tagset} |-> (CHOOSE t \in tagset : t.Key = k).Value]

\* ansible_dict_to_boto3_tag_list: {Key: Value} -> [{Key, Value}, ...]
ansible_dict_to_boto3_tag_list(d) ==
    {[Key |-> k, Value |-> d[k]] : k \in DOMAIN d}

\* dict.copy() followed by dict.update(tags): tags win on a key conflict.
DictUpdate(current, tags) ==
    [k \in DOMAIN current \cup DOMAIN tags |->
        IF k \in DOMAIN tags THEN tags[k] ELSE current[k]]

\* Line 1154 without its test of purge_tags.
TagTarget_AlwaysMerge(current, tags, purge_tags) == DictUpdate(current, tags)

\* The tags ensure_tags works towards (the value of its local `tags`).
TagTarget(current, tags, purge_tags) ==
    IF purge_tags THEN tags ELSE DictUpdate(current, tags)

\* calculate_etag / calculate_etag_content: the digest of the local data, computed
\* the multipart way when the remote ETag holds a "-", the plain MD5 way otherwise.
calculate_etag(content, s3_etag) ==
    IF s3_etag.kind = "multipart"
    THEN Etag("multipart", content)
    ELSE Etag("md5", content)

\* etag_compare comparing what the ETag was derived from, whatever its form.
etag_compare_ContentOnly(s3_etag, content) == s3_etag.of = content

\* etag_compare lines 483-492, given the ETag get_etag returned.
etag_compare(s3_etag, content) == s3_etag = calculate_etag(content, s3_etag)

\* is_local_object_latest with a strict comparison of the timestamps.
is_local_object_latest_Strict(s3_last_modified, file) ==
    IF ~file.exists THEN FALSE ELSE s3_last_modified < file.mtime

\* is_local_object_latest lines 521-525, given the timestamp of the remote object.
is_local_object_latest(s3_last_modified, file) ==
    IF ~file.exists THEN FALSE ELSE s3_last_modified <= file.mtime

\* str.encode("utf-8") taking the low byte of every code point.
utf8_char_LowByte(cp) == <<cp % 256>>

\* The UTF-8 encoding of a code point of the basic plane.
utf8_char(cp) ==
    IF cp < 128 THEN <<cp>>
    ELSE IF cp < 2048 THEN <<192 + (cp \div 64), 128 + (cp % 64)>>
    ELSE <<224 + (cp \div 4096), 128 + ((cp \div 64) % 64), 128 + (cp % 64)>>

\* str.encode("utf-8")
RECURSIVE utf8_encode(_)
utf8_encode(text) ==
    IF text = <<>> THEN <<>>
    ELSE utf8_char(Head(text)) \o utf8_encode(Tail(text))

IsContinuation(b) == b \in 128..191

\* to_native of bytes: bytes.decode("utf-8", "surrogateescape"), which turns
\* a byte that is no part of a well-formed sequence into U+DC00 + byte.
RECURSIVE to_native(_)
to_native(b) ==
    IF b = <<>> THEN <<>>
    ELSE IF b[1] < 128 THEN <<b[1]>> \o to_native(Tail(b))
    ELSE IF /\ b[1] \in 194..223 /\ Len(b) >= 2 /\ IsContinuation(b[2])
    THEN <<(b[1] - 192) * 64 + (b[2] - 128)>> \o to_native(SubSeq(b, 3, Len(b)))
    ELSE IF /\ b[1] \in 224..239 /\ Len(b) >= 3
            /\ IsContinuation(b[2]) /\ IsContinuation(b[3])
            /\ (b[1] - 224) * 4096 + (b[2] - 128) * 64 \in
                    (2048..65535) \ (55296..57343)
    THEN <<(b[1] - 224) * 4096 + (b[2] - 128) * 64 + (b[3] - 128)>>
            \o to_native(SubSeq(b, 4, Len(b)))
    ELSE <<56320 + b[1]>> \o to_native(Tail(b))

\* The blobs of the files and of the objects: the inline texts, encoded.
Blobs == {utf8_encode(c) : c \in Contents}

\* get_binary_content: the bytes of the inline content; an empty content is
\* falsy and gives None.
get_binary_content(p) ==
    IF p.content # NoContent /\ p.content # <<>>
    THEN utf8_encode(p.content) ELSE NoContent

\* io.BytesIO(content) of upload_s3file line 850: None gives an empty buffer.
BytesIO(content) == IF content = NoContent THEN <<>> ELSE content

\* The data a put fingerprints and uploads: the src file, else the inline bytes
\* (the local_file / content arguments of etag_compare and upload_s3file).
LocalData(p, file) ==
    IF p.src THEN file.content ELSE get_binary_content(p)

---------------------------------------------------------------------------
(* Results *)

NoResult ==
    [status |-> "running", changed |-> FALSE, msg |-> "", url |-> "None",
     tags |-> {}, requested_tags |-> {}, live_tags |-> {}, cause |-> "None",
     contents |-> NoContent]

\* module.exit_json(msg=..., changed=...)
ExitJson(msg, ch) == [NoResult EXCEPT !.status = "exit", !.msg = msg, !.changed = ch]

\* module.exit_json(failed=False): no changed key, which Ansible reports as false.
ExitPlain == [NoResult EXCEPT !.status = "exit"]

\* module.fail_json(msg=...)
FailJson(msg) == [NoResult EXCEPT !.status = "fail", !.msg = msg]

\* module.fail_json_aws(e, msg=...), directly or for an S3ObjectFailure in main
FailJsonAws(msg, cause) ==
    [NoResult EXCEPT !.status = "fail", !.msg = msg, !.cause = cause]

\* An exception nothing catches: the module dies with a traceback.
Crash(cause) == [NoResult EXCEPT !.status = "crash", !.cause = cause]

Call(op, arg, resp) == [op |-> op, arg |-> arg, resp |-> resp]

CallsOf(log, ops) == {n \in 1..Len(log) : log[n].op \in ops}
NumCalls(ops) == Cardinality(CallsOf(calls, ops))

\* A set of positions of a log as the sequence of them in order.
InOrderOf(S) ==
    [i \in 1..Cardinality(S) |->
        CHOOSE n \in S : Cardinality({m \in S : m < n}) = i - 1]

TransferOps == {"upload_file", "upload_fileobj"}
TagWriteOps == {"put_object_tagging", "delete_object_tagging"}

Last(log) == log[Len(log)]

\* This step issues a call of `op`.
Issues(op) == Len(calls') = Len(calls) + 1 /\ Last(calls').op = op

\* The calls of `ops` the backend carried out.
Done(log, ops) == {n \in CallsOf(log, ops) : log[n].resp = "200"}

---------------------------------------------------------------------------
(* The backend's answers *)

\* The faults the environment may inject into a call: "error" is a ClientError
\* with no code the module looks for, the others are the codes it does look for.
FaultCodes ==
    {"error", "NotImplemented", "AccessControlListNotSupported", "AccessDenied",
     "NoSuchBucket", "InvalidArgument", "SignatureVersion4", "SSLError"}

\* No call of the log was answered with a fault.
NoFaultIn(log) == \A n \in 1..Len(log) : log[n].resp \notin FaultCodes

FaultsOf(codes) == IF faultsLeft > 0 THEN codes ELSE {}
Faults == FaultsOf({"error"})

Spend(resp) == IF resp \in FaultCodes THEN faultsLeft - 1 ELSE faultsLeft

HeadBucket ==
    Faults \cup
    {IF remote.headBucketDenied THEN "403"
     ELSE IF remote.bucketExists THEN "200" ELSE "404"}

HeadObject ==
    Faults \cup
    {IF remote.headObjectDenied THEN "403"
     ELSE IF remote.bucketExists /\ remote.obj.exists THEN "200" ELSE "404"}

\* What get_object_tagging may show: the stored tag set, or the one stored before
\* the last write while that write has not propagated.
VisibleTagSets == {remote.TagSet, remote.staleTagSet}

\* The answers to a call on the target object (tagging, ACL): a fault, or 404
\* when there is no such object.
OnObject ==
    Faults \cup {IF remote.bucketExists /\ remote.obj.exists THEN "200" ELSE "404"}

---------------------------------------------------------------------------
(* The start of an invocation *)

\* A request.  src says whether the src path is given (local_file is that
\* path), content is the inline content or None; has_tags is `tags is not None`.
Request(mode, check, ow, ign, src, content, perm, has_tags, tags, purge) ==
    [mode |-> mode, check_mode |-> check, overwrite |-> ow,
     ignore_nonexistent_bucket |-> ign, src |-> src, content |-> content,
     permission |-> perm, has_tags |-> has_tags, tags |-> tags,
     purge_tags |-> purge, object |-> ObjKey, retries |-> 0, HAS_MD5 |-> TRUE,
     version |-> "None", sig_v4 |-> TRUE]

Remote(exists, ownership, hbDenied, hoDenied, obj, tagset) ==
    [bucketExists |-> exists, ownership |-> ownership,
     headBucketDenied |-> hbDenied, headObjectDenied |-> hoDenied,
     obj |-> obj, TagSet |-> tagset, staleTagSet |-> tagset, versions |-> {},
     versioning |-> FALSE, src |-> NoObject]

NoVars ==
    [validate |-> TRUE, acl_disabled |-> FALSE, bucket_acl |-> <<>>,
     object_acl |-> <<>>, permission |-> <<>>, bucketrtn |-> FALSE,
     object |-> "None"]

NoFrame ==
    [keyrtn |-> FALSE, idx |-> 0, x |-> 0, polls |-> 0, sleeps |-> 0,
     tags |-> EmptyDict, current_tags_dict |-> EmptyDict, changed |-> FALSE,
     ret |-> "None", s3_etag |-> NoEtag,
     page |-> <<>>, marker |-> 0, truncated |-> FALSE, fallback |-> FALSE,
     sig_4 |-> TRUE, reconnects |-> 0, d_etag |-> NoEtag]

\* The state main() starts in, for a request p against a remote state r, with
\* n faults to come.
StartWith(p, r, f, n) ==
    /\ params = p
    /\ s3_vars = NoVars
    /\ remote = r
    /\ local_file = f
    /\ pc = "populate_facts"
    /\ frame = NoFrame
    /\ result = NoResult
    /\ calls = <<>>
    /\ warnings = {}
    /\ history = <<>>
    /\ faultsLeft = n

Start(p, r, f) == StartWith(p, r, f, MaxFaults)

End(res) == pc' = "done" /\ result' = res
Goto(p) == pc' = p /\ UNCHANGED result

\* An S3ObjectFailure that lost the exception it wraps.
S3ObjectFailure_NoCause(msg, cause) == FailJson(msg)

\* An S3ObjectFailure raised under main's try: fail_json_aws(e.original_e, e.message)
S3ObjectFailure(msg, cause) == FailJsonAws(msg, cause)

Issue(op, arg, resp) ==
    /\ calls' = Append(calls, Call(op, arg, resp))
    /\ faultsLeft' = Spend(resp)

---------------------------------------------------------------------------
(* populate_facts and validate_bucket, lines 1569-1704 *)

populate_facts ==
    /\ pc = "populate_facts"
    /\ IF params.overwrite = "different" /\ ~params.HAS_MD5
       THEN /\ End(FailJson("overwrite=different is unavailable: ETag calculation requires MD5 support"))
            /\ UNCHANGED <<s3_vars, frame>>
       ELSE IF params.object # "None" /\ params.mode = "delete"
       THEN /\ End(FailJson("Parameter obj cannot be used with mode=delete"))
            /\ UNCHANGED <<s3_vars, frame>>
       ELSE /\ Goto("validate_bucket")
            /\ frame' = [frame EXCEPT !.sig_4 = params.sig_v4]
            /\ s3_vars' = [s3_vars EXCEPT
                   !.validate = ~params.ignore_nonexistent_bucket,
                   !.acl_disabled = FALSE,
                   !.permission = params.permission,
                   !.object = params.object]
    /\ UNCHANGED <<params, remote, local_file, calls, warnings, history,
                   faultsLeft>>

\* bucket_check lines 528-549, given the answer to head_bucket.
bucket_check(resp, validate) ==
    CASE resp = "404" -> [out |-> "return", val |-> FALSE]
      [] resp = "403" -> IF validate
                         THEN [out |-> "fail_json_aws", val |-> FALSE]
                         ELSE [out |-> "return", val |-> TRUE]
      [] resp = "error" -> [out |-> "S3ObjectFailure", val |-> FALSE]
      [] OTHER -> [out |-> "return", val |-> TRUE]

\* key_check lines 454-477, given the answer to head_object.
key_check(resp, validate) ==
    CASE resp = "404" -> [out |-> "return", val |-> FALSE]
      [] resp = "403" -> IF validate = TRUE
                         THEN [out |-> "fail_json_aws", val |-> FALSE]
                         ELSE [out |-> "return", val |-> TRUE]
      [] resp = "error" -> [out |-> "S3ObjectFailure", val |-> FALSE]
      [] OTHER -> [out |-> "return", val |-> TRUE]

Filter(seq, S) == SelectSeq(seq, LAMBDA acl : acl \in S)

\* validate_bucket lines 1669-1691: the canned ACLs split by where they apply.
AclPartition(v) ==
    IF v.acl_disabled THEN v
    ELSE [v EXCEPT !.bucket_acl = Filter(params.permission, bucket_canned_acl),
                   !.object_acl = Filter(params.permission, object_canned_acl)]

error_acl(v) ==
    IF v.acl_disabled THEN <<>>
    ELSE SelectSeq(params.permission,
                   LAMBDA acl : /\ acl \notin bucket_canned_acl
                                /\ acl \notin object_canned_acl)

\* validate_bucket line 1652: exists = bucket_check(module, s3, bucket)
ValidateBucket_Exists ==
    /\ pc = "validate_bucket"
    /\ \E resp \in HeadBucket :
         LET r == bucket_check(resp, TRUE) IN
         /\ Issue("head_bucket", "", resp)
         /\ CASE r.out = "fail_json_aws" ->
                  /\ End(FailJsonAws("Failed while looking up bucket (during bucket_check)", resp))
                  /\ UNCHANGED s3_vars
              [] r.out = "S3ObjectFailure" ->
                  \* raised outside main's try: nothing catches it
                  /\ End(Crash("S3ObjectFailure"))
                  /\ UNCHANGED s3_vars
              [] r.val -> Goto("ownership_controls") /\ UNCHANGED s3_vars
              [] OTHER ->
                  IF error_acl(s3_vars) # <<>>
                  THEN /\ End(FailJson("Unknown permission specified"))
                       /\ UNCHANGED s3_vars
                  ELSE /\ Goto("bucketrtn")
                       /\ s3_vars' = AclPartition(s3_vars)
    /\ UNCHANGED <<params, remote, local_file, frame, warnings, history>>

\* validate_bucket lines 1654-1691: the ownership controls, then the ACL split
ValidateBucket_Ownership ==
    /\ pc = "ownership_controls"
    /\ \E resp \in Faults \cup {remote.ownership} :
         LET v == IF resp = "BucketOwnerEnforced"
                  THEN [s3_vars EXCEPT !.acl_disabled = TRUE]
                  ELSE s3_vars
         IN
         /\ Issue("get_bucket_ownership_controls", "", resp)
         /\ IF error_acl(v) # <<>>
            THEN /\ End(FailJson("Unknown permission specified"))
                 /\ UNCHANGED s3_vars
            ELSE /\ Goto("bucketrtn")
                 /\ s3_vars' = AclPartition(v)
    /\ UNCHANGED <<params, remote, local_file, frame, warnings, history>>

\* validate_bucket lines 1693-1704: bucketrtn, then main's dispatch on the mode
ValidateBucket_Bucketrtn ==
    /\ pc = "bucketrtn"
    /\ \E resp \in HeadBucket :
         LET r == bucket_check(resp, s3_vars.validate) IN
         /\ Issue("head_bucket", "", resp)
         /\ CASE r.out = "fail_json_aws" ->
                  /\ End(FailJsonAws("Failed while looking up bucket (during bucket_check)", resp))
                  /\ UNCHANGED s3_vars
              [] r.out = "S3ObjectFailure" ->
                  /\ End(Crash("S3ObjectFailure"))
                  /\ UNCHANGED s3_vars
              [] OTHER ->
                  IF /\ s3_vars.validate
                     /\ params.mode \notin {"create", "put", "delete", "copy"}
                     /\ ~r.val
                  THEN /\ End(FailJson("Source bucket cannot be found."))
                       /\ UNCHANGED s3_vars
                  ELSE /\ Goto(params.mode)
                       /\ s3_vars' = [s3_vars EXCEPT !.bucketrtn = r.val]
    /\ UNCHANGED <<params, remote, local_file, frame, warnings, history>>

---------------------------------------------------------------------------
(* create_bucket, lines 552-595 *)

\* Where create_bucket's `return True` continues, by its caller.
AfterCreateBucket ==
    IF frame.ret = "create_exit"
    THEN End(ExitJson("Bucket created successfully", TRUE))
    ELSE Goto(frame.ret)

\* create_bucket lines 560-577: the check-mode exit, then s3.create_bucket
CreateBucket_Create ==
    /\ pc = "create_bucket"
    /\ IF params.check_mode
       THEN /\ End(ExitJson("CREATE operation skipped - running in check mode", TRUE))
            /\ UNCHANGED <<remote, frame, warnings, calls, faultsLeft>>
       ELSE \E resp \in FaultsOf({"error", "NotImplemented"}) \cup {"200"} :
            /\ Issue("create_bucket", "", resp)
            /\ CASE resp = "error" ->
                     /\ End(S3ObjectFailure("Failed while creating bucket or setting acl", resp))
                     /\ UNCHANGED <<remote, frame, warnings>>
                 [] resp \in IGNORE_S3_DROP_IN_EXCEPTIONS ->
                     /\ warnings' = warnings \cup {"PutBucketAcl is not implemented by your storage provider."}
                     /\ AfterCreateBucket
                     /\ UNCHANGED <<remote, frame>>
                 [] OTHER ->
                     /\ remote' = [remote EXCEPT !.bucketExists = TRUE]
                     /\ frame' = [frame EXCEPT !.idx = 1]
                     /\ IF Len(params.permission) > 0
                        THEN Goto("put_bucket_acl")
                        ELSE AfterCreateBucket
                     /\ UNCHANGED warnings
    /\ UNCHANGED <<params, s3_vars, local_file, history>>

\* create_bucket lines 578-593: one put_bucket_acl per entry of module.params'
\* permission, in list order
CreateBucket_Acl ==
    /\ pc = "put_bucket_acl"
    /\ \E resp \in FaultsOf({"error", "NotImplemented"}) \cup {"200"} :
         /\ Issue("put_bucket_acl", params.permission[frame.idx], resp)
         /\ CASE resp = "error" ->
                  /\ End(S3ObjectFailure("Failed while creating bucket or setting acl", resp))
                  /\ UNCHANGED <<frame, warnings>>
              [] resp \in IGNORE_S3_DROP_IN_EXCEPTIONS ->
                  /\ warnings' = warnings \cup {"PutBucketAcl is not implemented by your storage provider."}
                  /\ AfterCreateBucket
                  /\ UNCHANGED frame
              [] OTHER ->
                  /\ frame' = [frame EXCEPT !.idx = frame.idx + 1]
                  /\ IF frame.idx < Len(params.permission)
                     THEN Goto("put_bucket_acl")
                     ELSE AfterCreateBucket
                  /\ UNCHANGED warnings
    /\ UNCHANGED <<params, s3_vars, remote, local_file, history>>

---------------------------------------------------------------------------
(* s3_object_do_put, lines 1282-1361 *)

\* s3_object_do_put lines 1286-1316: the source checks, then the branch on bucketrtn
Put_Begin ==
    /\ pc = "put"
    /\ IF params.content = NoContent /\ ~params.src
       THEN /\ End(FailJson("Either content, content_base64 or src must be specified for PUT operations"))
            /\ UNCHANGED <<s3_vars, frame>>
       ELSE IF params.src /\ ~local_file.exists
       THEN /\ End(FailJson("Local object does not exist for PUT operation"))
            /\ UNCHANGED <<s3_vars, frame>>
       ELSE IF s3_vars.bucketrtn
       THEN /\ Goto("put_key_check")
            /\ UNCHANGED <<s3_vars, frame>>
       ELSE /\ Goto("create_bucket")
            /\ s3_vars' = [s3_vars EXCEPT !.permission = s3_vars.bucket_acl]
            /\ frame' = [frame EXCEPT !.ret = "put_overwrite"]
    /\ UNCHANGED <<params, remote, local_file, calls, warnings, history, faultsLeft>>

\* s3_object_do_put lines 1302-1309: keyrtn = key_check(...)
Put_KeyCheck ==
    /\ pc = "put_key_check"
    /\ \E resp \in HeadObject :
         LET r == key_check(resp, s3_vars.validate) IN
         /\ Issue("head_object", "", resp)
         /\ CASE r.out = "fail_json_aws" ->
                  /\ End(FailJsonAws("Failed while looking up object (during key check)", resp))
                  /\ UNCHANGED frame
              [] r.out = "S3ObjectFailure" ->
                  /\ End(S3ObjectFailure("Failed while looking up object (during key check)", resp))
                  /\ UNCHANGED frame
              [] OTHER ->
                  /\ Goto("put_overwrite")
                  /\ frame' = [frame EXCEPT !.keyrtn = r.val]
    /\ UNCHANGED <<params, s3_vars, remote, local_file, warnings, history>>

\* Line 1321 with overwrite=never taken for a policy that uploads.
PutMaySkip_NotNever(keyrtn, overwrite) ==
    keyrtn /\ overwrite \notin {"always", "never"}

\* Line 1321 without its test of overwrite.
PutMaySkip_NotAlways(keyrtn, overwrite) == keyrtn

\* The condition of line 1321: the object is there and overwrite may spare it.
PutMaySkip(keyrtn, overwrite) == keyrtn /\ overwrite # "always"

\* The left operand of line 1322: skipping needs no fingerprint.
PutSkipsUnseen(overwrite) == overwrite = "never"

\* s3_object_do_put lines 1321-1347: skip, fingerprint first, or upload
Put_Overwrite ==
    /\ pc = "put_overwrite"
    /\ IF PutMaySkip(frame.keyrtn, params.overwrite)
       THEN IF PutSkipsUnseen(params.overwrite)
            THEN /\ Goto("ensure_tags")
                 /\ frame' = [frame EXCEPT !.ret = "put_skip"]
                 /\ UNCHANGED s3_vars
            ELSE /\ Goto("put_etag_compare")
                 /\ UNCHANGED <<frame, s3_vars>>
       ELSE /\ Goto("upload_s3file")
            /\ s3_vars' = IF ~s3_vars.acl_disabled
                          THEN [s3_vars EXCEPT !.permission = s3_vars.object_acl]
                          ELSE s3_vars
            /\ UNCHANGED frame
    /\ UNCHANGED <<params, remote, local_file, calls, warnings, history, faultsLeft>>

\* s3_object_do_put lines 1322-1347 with etag_compare: get_etag's head_object,
\* whose faults other than 404 nothing catches; then the digest of the local
\* data, which there is none to take of the None an empty content gives
Put_EtagCompare ==
    /\ pc = "put_etag_compare"
    /\ \E resp \in HeadObject :
         LET s3_etag == IF resp = "200" THEN remote.obj.ETag ELSE NoEtag IN
         /\ Issue("head_object", "", resp)
         /\ IF resp \notin {"200", "404"}
            THEN /\ End(Crash("ClientError"))
                 /\ UNCHANGED <<frame, s3_vars>>
            ELSE IF LocalData(params, local_file) = NoContent
            THEN /\ End(Crash("TypeError"))
                 /\ UNCHANGED <<frame, s3_vars>>
            ELSE IF etag_compare(s3_etag, LocalData(params, local_file))
            THEN /\ Goto("ensure_tags")
                 /\ frame' = [frame EXCEPT !.ret = "put_skip", !.s3_etag = s3_etag]
                 /\ UNCHANGED s3_vars
            ELSE /\ Goto("upload_s3file")
                 /\ frame' = [frame EXCEPT !.s3_etag = s3_etag]
                 /\ s3_vars' = IF ~s3_vars.acl_disabled
                               THEN [s3_vars EXCEPT !.permission = s3_vars.object_acl]
                               ELSE s3_vars
    /\ UNCHANGED <<params, remote, local_file, warnings, history>>

---------------------------------------------------------------------------
(* upload_s3file and put_object_acl, lines 696-708 and 810-870 *)

\* The ACL entry of upload_s3file's extra arguments, lines 834-839
UploadAcl == IF Len(params.permission) > 0 THEN params.permission[1] ELSE "None"

\* Lines 858-859 going past put_object_acl.
AfterUpload_NoAcl(acl_disabled, permission) == "ensure_tags"

\* upload_s3file lines 858-862: put_object_acl unless ACLs are disabled, whose
\* loop has a pass per permission; then ensure_tags
AfterUpload(acl_disabled, permission) ==
    IF ~acl_disabled /\ Len(permission) > 0
    THEN "put_object_acl" ELSE "ensure_tags"

\* upload_s3file lines 823-861: the check-mode exit, then the one transfer call
Upload ==
    /\ pc = "upload_s3file"
    /\ IF params.check_mode
       THEN /\ End(ExitJson("PUT operation skipped - running in check mode", TRUE))
            /\ UNCHANGED <<remote, frame, calls, faultsLeft>>
       ELSE \E resp \in Faults \cup {IF remote.bucketExists THEN "200" ELSE "404"} :
            \E kind \in EtagKinds :
            /\ Issue(IF params.src THEN "upload_file" ELSE "upload_fileobj",
                     UploadAcl, resp)
            /\ IF resp # "200"
               THEN /\ End(S3ObjectFailure("Unable to complete PUT operation.", resp))
                    /\ UNCHANGED <<remote, frame>>
               ELSE /\ remote' = [remote EXCEPT
                           !.obj = Object(IF params.src THEN local_file.content
                                          ELSE BytesIO(get_binary_content(params)),
                                          kind, MaxTime),
                           !.TagSet = {}, !.staleTagSet = {}]
                    /\ frame' = [frame EXCEPT !.idx = 1, !.ret = "upload"]
                    /\ Goto(AfterUpload(s3_vars.acl_disabled, params.permission))
    /\ UNCHANGED <<params, s3_vars, local_file, warnings, history>>

\* put_object_acl lines 700-708: one put_object_acl per entry of module.params'
\* permission, in list order; of the faults only AccessControlListNotSupported
\* is let pass with a warning
PutObjectAcl ==
    /\ pc = "put_object_acl"
    /\ \E resp \in FaultsOf({"error", "AccessControlListNotSupported",
                             "NotImplemented"}) \cup {"200"} :
         /\ Issue("put_object_acl", params.permission[frame.idx], resp)
         /\ CASE resp = "AccessControlListNotSupported" ->
                  /\ warnings' = warnings \cup {"PutObjectAcl operation : The bucket does not allow ACLs."}
                  /\ Goto("ensure_tags")
                  /\ UNCHANGED frame
              [] resp = "200" ->
                  /\ frame' = [frame EXCEPT !.idx = frame.idx + 1]
                  /\ IF frame.idx < Len(params.permission)
                     THEN Goto("put_object_acl")
                     ELSE Goto("ensure_tags")
                  /\ UNCHANGED warnings
              [] OTHER ->
                  /\ End(S3ObjectFailure("Failed while creating object", resp))
                  /\ UNCHANGED <<frame, warnings>>
    /\ UNCHANGED <<params, s3_vars, remote, local_file, history>>

---------------------------------------------------------------------------
(* ensure_tags and wait_tags_are_applied, lines 1082-1185 *)

\* Where ensure_tags' return continues, by its caller.
AfterEnsureTags ==
    CASE frame.ret = "put_skip" -> "get_download_url"
      [] frame.ret \in {"copy_same", "copy_done"} -> "copy_exit"
      [] OTHER -> "put_download_url"

\* Line 1157 writing the tags whether or not they differ.
TagWrite_Unconditional(has_tags, current, tags, purge_tags) ==
    IF ~has_tags THEN "None"
    ELSE IF DOMAIN tags # {} THEN "put_object_tagging"
    ELSE IF purge_tags THEN "delete_object_tagging"
    ELSE "wait_tags_are_applied"

\* ensure_tags lines 1151-1181: the step that follows the fetch of the current
\* tags, given the target `tags`; "None" is the return with changed=False
TagWrite(has_tags, current, tags, purge_tags) ==
    IF ~has_tags \/ current = tags THEN "None"
    ELSE IF DOMAIN tags # {} THEN "put_object_tagging"
    ELSE IF purge_tags THEN "delete_object_tagging"
    ELSE "wait_tags_are_applied"

\* ensure_tags lines 1139-1160: the current tags, the target, and what to do
EnsureTags_Fetch ==
    /\ pc = "ensure_tags"
    /\ \E resp \in OnObject :
       \E seen \in VisibleTagSets :
         LET current == boto3_tag_list_to_ansible_dict(seen)
             tags == TagTarget(current, params.tags, params.purge_tags)
         IN
         /\ Issue("get_object_tagging", "", resp)
         /\ IF resp # "200"
            THEN /\ End(S3ObjectFailure("Failed to get object tags.", resp))
                 /\ UNCHANGED frame
            ELSE /\ frame' = [frame EXCEPT !.current_tags_dict = current,
                                           !.changed = FALSE,
                                           !.polls = 0, !.sleeps = 0,
                                           !.tags = IF params.has_tags THEN tags
                                                    ELSE params.tags]
                 /\ IF TagWrite(params.has_tags, current, tags,
                                 params.purge_tags) = "None"
                    THEN Goto(AfterEnsureTags)
                    ELSE Goto(TagWrite(params.has_tags, current, tags,
                                       params.purge_tags))
    /\ UNCHANGED <<params, s3_vars, remote, local_file, warnings, history>>

\* ensure_tags lines 1161-1169: put_object_tagging with the whole target
EnsureTags_Put ==
    /\ pc = "put_object_tagging"
    /\ \E resp \in OnObject :
         /\ Issue("put_object_tagging", "", resp)
         /\ IF resp # "200"
            THEN /\ End(S3ObjectFailure("Failed to update object tags.", resp))
                 /\ UNCHANGED remote
            ELSE /\ Goto("wait_tags_are_applied")
                 /\ remote' = [remote EXCEPT
                        !.staleTagSet = remote.TagSet,
                        !.TagSet = ansible_dict_to_boto3_tag_list(frame.tags)]
    /\ UNCHANGED <<params, s3_vars, local_file, frame, warnings, history>>

\* ensure_tags lines 1170-1180: delete_object_tagging
EnsureTags_Delete ==
    /\ pc = "delete_object_tagging"
    /\ \E resp \in OnObject :
         /\ Issue("delete_object_tagging", "", resp)
         /\ IF resp # "200"
            THEN /\ End(S3ObjectFailure("Failed to delete object tags.", resp))
                 /\ UNCHANGED remote
            ELSE /\ Goto("wait_tags_are_applied")
                 /\ remote' = [remote EXCEPT !.staleTagSet = remote.TagSet,
                                             !.TagSet = {}]
    /\ UNCHANGED <<params, s3_vars, local_file, frame, warnings, history>>

\* The failure wait_tags_are_applied ends with, lines 1131-1135
TagsTimeout(expected, live) ==
    [FailJson("Object tags failed to apply in the expected time.") EXCEPT
        !.requested_tags = {expected}, !.live_tags = {live}]

\* wait_tags_are_applied lines 1115-1135: one pass of the loop (one fetch); the
\* pass that ends the range falls through to fail_json
WaitTags_Poll ==
    /\ pc = "wait_tags_are_applied"
    /\ \E resp \in OnObject :
       \E seen \in VisibleTagSets :
         LET current == boto3_tag_list_to_ansible_dict(seen) IN
         /\ Issue("get_object_tagging", "", resp)
         /\ IF resp # "200"
            THEN /\ End(S3ObjectFailure("Failed to get object tags.", resp))
                 /\ UNCHANGED frame
            ELSE IF current # frame.tags
            THEN /\ frame' = [frame EXCEPT !.polls = frame.polls + 1,
                                           !.sleeps = frame.sleeps + 1,
                                           !.current_tags_dict = current]
                 /\ IF frame.polls + 1 < MaxPolls
                    THEN Goto("wait_tags_are_applied")
                    ELSE End(TagsTimeout(frame.tags, current))
            ELSE /\ frame' = [frame EXCEPT !.polls = frame.polls + 1,
                                           !.current_tags_dict = current,
                                           !.changed = TRUE]
                 /\ Goto(AfterEnsureTags)
    /\ UNCHANGED <<params, s3_vars, remote, local_file, warnings, history>>

---------------------------------------------------------------------------
(* get_download_url and put_download_url, lines 965-999 *)

WithUrl(res, method, tags) == [res EXCEPT !.url = method, !.tags = {tags}]

\* get_download_url as s3_object_do_put calls it (lines 1335-1343)
GetDownloadUrl ==
    /\ pc = "get_download_url"
    /\ \E resp \in Faults \cup {"200"} :
         /\ Issue("generate_presigned_url", "get_object", resp)
         /\ IF resp = "error"
            THEN End(S3ObjectFailure("Failed while getting download url.", resp))
            ELSE End(WithUrl(ExitJson("Download url:", frame.changed),
                             "get_object", frame.current_tags_dict))
    /\ UNCHANGED <<params, s3_vars, remote, local_file, frame, warnings, history>>

\* put_download_url and the exit_json of upload_s3file (lines 866-870) or of
\* create_dirkey (lines 729-736)
PutDownloadUrl ==
    /\ pc = "put_download_url"
    /\ \E resp \in Faults \cup {"200"} :
         /\ Issue("generate_presigned_url", "put_object", resp)
         /\ IF resp = "error"
            THEN End(S3ObjectFailure("Unable to generate presigned URL", resp))
            ELSE End(WithUrl(ExitJson(IF frame.ret = "create_dirkey"
                                      THEN "Virtual directory created in bucket"
                                      ELSE "PUT operation complete", TRUE),
                             "put_object", frame.current_tags_dict))
    /\ UNCHANGED <<params, s3_vars, remote, local_file, frame, warnings, history>>

---------------------------------------------------------------------------
(* s3_object_do_get and download_s3file, lines 873-924 and 1198-1279 *)

\* s3_object_do_get lines 1200-1248: the key probe, then the branch on overwrite
Get_KeyCheck ==
    /\ pc = "get"
    /\ \E resp \in HeadObject :
         LET r == key_check(resp, s3_vars.validate) IN
         /\ Issue("head_object", "", resp)
         /\ frame' = [frame EXCEPT !.keyrtn = (r.out = "return" /\ r.val)]
         /\ CASE r.out = "fail_json_aws" ->
                  End(FailJsonAws("Failed while looking up object (during key check)", resp))
              [] r.out = "S3ObjectFailure" ->
                  End(S3ObjectFailure("Failed while looking up object (during key check)", resp))
              [] ~r.val -> End(FailJson("Key does not exist."))
              [] local_file.exists /\ params.overwrite = "never" ->
                  End(ExitJson("Local object already exists and overwrite is disabled.", FALSE))
              [] local_file.exists /\ params.overwrite = "different" ->
                  Goto("get_etag_compare")
              [] local_file.exists /\ params.overwrite = "latest" ->
                  Goto("get_latest")
              [] OTHER -> Goto("download_s3file")
    /\ UNCHANGED <<params, s3_vars, remote, local_file, warnings, history>>

\* s3_object_do_get lines 1225-1237 with etag_compare: get_etag's head_object,
\* whose faults other than 404 nothing catches
Get_EtagCompare ==
    /\ pc = "get_etag_compare"
    /\ \E resp \in HeadObject :
         LET s3_etag == IF resp = "200" THEN remote.obj.ETag ELSE NoEtag IN
         /\ Issue("head_object", "", resp)
         /\ frame' = [frame EXCEPT !.s3_etag = s3_etag]
         /\ IF resp \notin {"200", "404"}
            THEN End(Crash("ClientError"))
            ELSE IF etag_compare(s3_etag, local_file.content)
            THEN End(ExitJson("Local and remote object are identical, ignoring. Use overwrite=always parameter to force.", FALSE))
            ELSE Goto("download_s3file")
    /\ UNCHANGED <<params, s3_vars, remote, local_file, warnings, history>>

\* s3_object_do_get lines 1238-1248 with is_local_object_latest: the head_object of
\* get_s3_last_modified_timestamp, none of whose faults anything catches
Get_Latest ==
    /\ pc = "get_latest"
    /\ \E resp \in HeadObject :
         /\ Issue("head_object", "", resp)
         /\ IF resp # "200"
            THEN End(Crash("ClientError"))
            ELSE IF is_local_object_latest(remote.obj.LastModified, local_file)
            THEN End(ExitJson("Local object is latest, ignoreing. Use overwrite=always parameter to force.", FALSE))
            ELSE Goto("download_s3file")
    /\ UNCHANGED <<params, s3_vars, remote, local_file, frame, warnings, history>>

\* The answers to get_object.
GetObject ==
    FaultsOf({"error", "InvalidArgument", "SignatureVersion4"})
    \cup {IF remote.headObjectDenied THEN "403"
          ELSE IF remote.bucketExists /\ remote.obj.exists THEN "200" ELSE "404"}

\* Line 889 catching the bad argument alone.
Unreadable_ArgumentOnly(resp) == resp = "InvalidArgument"

\* The answers to get_object that lines 889-892 and 897-900 end the invocation
\* on at once, with fail_json_aws: the key is not there or may not be read.
Unreadable(resp) == resp \in {"404", "403", "InvalidArgument"}

\* Another client of the bucket deletes the object after this invocation has
\* probed the key and before it reads it.
OtherDeletesObject ==
    /\ pc = "download_s3file"
    /\ ~params.check_mode
    /\ remote.obj.exists
    /\ remote' = [remote EXCEPT !.obj = NoObject, !.TagSet = {}, !.staleTagSet = {}]
    /\ UNCHANGED <<params, s3_vars, local_file, pc, frame, result, calls,
                   warnings, history, faultsLeft>>

\* download_s3file lines 874-905: the check-mode exit, then the get_object that
\* confirms the key can be read; lines 1260-1277 for Sigv4Required: the handler
\* connects again with sig_4=True, and the second call of download_s3file reads
\* s3_vars["obj"], a key s3_vars lacks
Download_GetObject ==
    /\ pc = "download_s3file"
    /\ IF params.check_mode
       THEN /\ End(ExitJson("GET operation skipped - running in check mode", TRUE))
            /\ UNCHANGED <<frame, calls, faultsLeft>>
       ELSE \E resp \in GetObject :
            /\ Issue("get_object", "", resp)
            /\ frame' = IF resp = "SignatureVersion4"
                         THEN [frame EXCEPT !.x = 0, !.sig_4 = TRUE,
                                            !.reconnects = frame.reconnects + 1]
                         ELSE [frame EXCEPT !.x = 0]
            /\ CASE Unreadable(resp) ->
                     End(FailJsonAws("Could not find the key", resp))
                 [] resp = "SignatureVersion4" -> End(Crash("KeyError"))
                 [] resp = "error" ->
                     End(S3ObjectFailure("Could not find the key", resp))
                 [] OTHER ->
                     IF params.retries + 1 > 0
                     THEN Goto("download_file")
                     ELSE End(ExitPlain)
    /\ UNCHANGED <<params, s3_vars, remote, local_file, warnings, history>>

\* Line 917 taking every pass for the last.
LastPass_Every(x, retries) == TRUE

\* The test of lines 917 and 922: this pass of the loop is the last.
LastPass(x, retries) == x >= retries

\* download_s3file lines 908-924: one pass of the retry loop.  Any ClientError
\* ("error", or one with a code such as AccessDenied) and an SSLError are
\* handled alike but for the way the last pass fails.
Download_File ==
    /\ pc = "download_file"
    /\ \E resp \in FaultsOf({"error", "AccessDenied", "SSLError"}) \cup {"200"} :
         /\ Issue("download_file", "", resp)
         /\ IF resp = "200"
            THEN /\ End(ExitJson("GET operation complete", TRUE))
                 /\ local_file' = File(remote.obj.content, MaxTime)
                 /\ UNCHANGED frame
            ELSE /\ UNCHANGED local_file
                 /\ IF LastPass(frame.x, params.retries)
                    THEN /\ End(IF resp = "SSLError"
                                THEN FailJsonAws("s3 download failed", resp)
                                ELSE S3ObjectFailure("Failed while downloading", resp))
                         /\ UNCHANGED frame
                    ELSE /\ Goto("download_file")
                         /\ frame' = [frame EXCEPT !.x = frame.x + 1]
    /\ UNCHANGED <<params, s3_vars, remote, warnings, history>>

---------------------------------------------------------------------------
(* s3_object_do_create and create_dirkey, lines 711-736 and 1410-1465 *)

\* The key of a virtual directory, lines 1427-1428: the object with a "/" ending.
DirKey(obj) == IF obj = "k" THEN "k/" ELSE obj

\* Line 1415 answering no whatever the bucket.
CreateSkipsBucket_Never(bucketrtn) == FALSE

\* The condition of line 1415: the bucket is there, nothing to create.
CreateSkipsBucket(bucketrtn) == bucketrtn

\* s3_object_do_create lines 1414-1428 and the branch on bucketrtn of line 1430
Create_Begin ==
    /\ pc = "create"
    /\ IF params.object = "None"
       THEN IF CreateSkipsBucket(s3_vars.bucketrtn)
            THEN /\ End(ExitJson("Bucket already exists.", FALSE))
                 /\ UNCHANGED <<s3_vars, frame>>
            ELSE /\ Goto("create_bucket")
                 /\ s3_vars' = [s3_vars EXCEPT !.permission = s3_vars.bucket_acl]
                 /\ frame' = [frame EXCEPT !.ret = "create_exit"]
       ELSE IF s3_vars.bucketrtn
            THEN /\ Goto("create_key_check")
                 /\ s3_vars' = [s3_vars EXCEPT !.object = DirKey(s3_vars.object)]
                 /\ UNCHANGED frame
            ELSE /\ Goto("create_bucket")
                 /\ s3_vars' = [s3_vars EXCEPT !.object = DirKey(s3_vars.object),
                                               !.permission = s3_vars.bucket_acl]
                 /\ frame' = [frame EXCEPT !.ret = "create_dirkey"]
    /\ UNCHANGED <<params, remote, local_file, calls, warnings, history, faultsLeft>>

\* s3_object_do_create lines 1431-1441: key_check with its default validate=True
Create_KeyCheck ==
    /\ pc = "create_key_check"
    /\ \E resp \in HeadObject :
         LET r == key_check(resp, TRUE) IN
         /\ Issue("head_object", s3_vars.object, resp)
         /\ CASE r.out = "fail_json_aws" ->
                  End(FailJsonAws("Failed while looking up object (during key check)", resp))
              [] r.out = "S3ObjectFailure" ->
                  End(S3ObjectFailure("Failed while looking up object (during key check)", resp))
              [] r.val ->
                  End(ExitJson("Bucket and key already exists.", FALSE))
              [] OTHER ->
                  Goto("create_dirkey")
    /\ UNCHANGED <<params, s3_vars, remote, local_file, frame, warnings, history>>

\* Lines 1439-1441 and 1458-1460, then create_dirkey lines 712-725 with the
\* put_object of put_object_acl (line 699)
CreateDirkey_Put ==
    /\ pc = "create_dirkey"
    /\ s3_vars' = IF ~s3_vars.acl_disabled
                  THEN [s3_vars EXCEPT !.permission = s3_vars.object_acl]
                  ELSE s3_vars
    /\ IF params.check_mode
       THEN /\ End(ExitJson("PUT operation skipped - running in check mode", TRUE))
            /\ UNCHANGED <<remote, frame, warnings, calls, faultsLeft>>
       ELSE \E resp \in FaultsOf({"error", "AccessControlListNotSupported"})
                        \cup {IF remote.bucketExists THEN "200" ELSE "404"} :
            /\ Issue("put_object", s3_vars.object, resp)
            /\ CASE resp = "AccessControlListNotSupported" ->
                     /\ warnings' = warnings \cup {"PutObjectAcl operation : The bucket does not allow ACLs."}
                     /\ Goto("ensure_tags")
                     /\ frame' = [frame EXCEPT !.ret = "create_dirkey"]
                     /\ UNCHANGED remote
                 [] resp = "200" ->
                     /\ remote' = [remote EXCEPT !.obj = Object("", "md5", MaxTime),
                                                 !.TagSet = {}, !.staleTagSet = {}]
                     /\ frame' = [frame EXCEPT !.idx = 1, !.ret = "create_dirkey"]
                     /\ IF Len(params.permission) > 0
                        THEN Goto("put_object_acl")
                        ELSE Goto("ensure_tags")
                     /\ UNCHANGED warnings
                 [] OTHER ->
                     /\ End(S3ObjectFailure("Failed while creating object", resp))
                     /\ UNCHANGED <<remote, frame, warnings>>
    /\ UNCHANGED <<params, local_file, history>>

---------------------------------------------------------------------------
(* s3_object_do_delete, delete_bucket and the listings, lines 598-675 and
   1379-1390 *)

\* An entry of a bucket's version listing.  A bucket that never had versioning
\* holds one entry per key, with the version id "null".
Entry(k, v) == [Key |-> k, VersionId |-> v, IsDeleteMarker |-> v = "m1"]

\* The order of a listing: by key, and within a key the newest first.
KeyIdx(k) == CASE k = "p/1" -> 0 [] k = "p/2" -> 1 [] OTHER -> 2
VerIdx(v) == CASE v = "m1" -> 0 [] v = "v1" -> 1 [] OTHER -> 2
Rank(e) == 3 * KeyIdx(e.Key) + VerIdx(e.VersionId) + 1

InOrder(S) ==
    [i \in 1..Cardinality(S) |->
        CHOOSE e \in S : Cardinality({x \in S : Rank(x) < Rank(e)}) = i - 1]

FirstOf(seq, n) == SubSeq(seq, 1, IF Len(seq) < n THEN Len(seq) ELSE n)

\* One page of list_object_versions after `marker`, and whether more follow.
VersionsAfter(versions, marker) == {e \in versions : Rank(e) > marker}
VersionPage(versions, marker) ==
    FirstOf(InOrder(VersionsAfter(versions, marker)), PageSize)

\* A listing that never says there is more.
IsTruncated_Never(rest) == FALSE

IsTruncated(rest) == Cardinality(rest) > PageSize

\* The keys list_objects_v2 shows: those whose newest entry is an object.
CurrentKeys(versions) ==
    {Entry(e.Key, "null") : e \in {x \in versions :
        /\ ~x.IsDeleteMarker
        /\ Entry(x.Key, "m1") \notin versions}}

\* Lines 609-617 leaving the delete markers out.
PageIdentifiers_NoMarkers(page) ==
    LET objs == SelectSeq(page, LAMBDA e : ~e.IsDeleteMarker)
    IN [i \in 1..Len(objs) |-> [Key |-> objs[i].Key, VersionId |-> objs[i].VersionId]]

\* Lines 609-617: the identifiers of a page, delete markers first
PageIdentifiers(page) ==
    LET ident(e) == [Key |-> e.Key, VersionId |-> e.VersionId]
        marks == SelectSeq(page, LAMBDA e : e.IsDeleteMarker)
        objs == SelectSeq(page, LAMBDA e : ~e.IsDeleteMarker)
    IN [i \in 1..Len(page) |->
           IF i <= Len(marks) THEN ident(marks[i]) ELSE ident(objs[i - Len(marks)])]

\* Lines 621-622 naming the version "null" with each key.
KeyIdentifiers_NullVersion(page) ==
    [i \in 1..Len(page) |-> [Key |-> page[i].Key, VersionId |-> "null"]]

\* Lines 621-622: one identifier per key, the key alone
KeyIdentifiers(page) == [i \in 1..Len(page) |-> [Key |-> page[i].Key]]

\* What delete_objects does to the bucket: an identifier with a version id
\* removes that entry; a key alone removes the object of a bucket without
\* versioning and puts a delete marker on the key of one with it.
DeleteObjects(versions, versioning, batch) ==
    LET ids == {batch[i] : i \in 1..Len(batch)}
        byVersion == {id \in ids : "VersionId" \in DOMAIN id}
        byKey == {id.Key : id \in ids \ byVersion}
        gone == {e \in versions :
                    \/ [Key |-> e.Key, VersionId |-> e.VersionId] \in byVersion
                    \/ e.Key \in byKey /\ ~versioning /\ e.VersionId = "null"}
    IN (versions \ gone)
       \cup (IF versioning THEN {Entry(k, "m1") : k \in byKey} ELSE {})

\* s3_object_do_delete and delete_bucket lines 654-662: the check-mode exit, then
\* bucket_check with its default validate=True
DeleteBucket_Check ==
    /\ pc = "delete"
    /\ IF params.check_mode
       THEN /\ End(ExitJson("DELETE operation skipped - running in check mode", TRUE))
            /\ UNCHANGED <<frame, calls, faultsLeft>>
       ELSE \E resp \in HeadBucket :
            LET r == bucket_check(resp, TRUE) IN
            /\ Issue("head_bucket", "", resp)
            /\ CASE r.out = "fail_json_aws" ->
                     /\ End(FailJsonAws("Failed while looking up bucket (during bucket_check)", resp))
                     /\ UNCHANGED frame
                 [] r.out = "S3ObjectFailure" ->
                     /\ End(S3ObjectFailure("Failed while looking up bucket (during bucket_check)", resp))
                     /\ UNCHANGED frame
                 [] r.val ->
                     /\ Goto("list_object_versions")
                     /\ frame' = [frame EXCEPT !.marker = 0, !.page = <<>>,
                                               !.fallback = FALSE]
                 [] OTHER ->
                     \* return False, then main's exit_json(failed=False)
                     /\ End(ExitPlain)
                     /\ UNCHANGED frame
    /\ UNCHANGED <<params, s3_vars, remote, local_file, warnings, history>>

\* delete_bucket's two ways out on a ClientError, lines 669-675: NoSuchBucket is
\* `return False` (main then exits with failed=False), any other is fatal
DeleteBucket_Except(resp) ==
    IF resp = "NoSuchBucket"
    THEN End(ExitPlain)
    ELSE End(S3ObjectFailure("Failed while deleting bucket", resp))

\* paginated_versioned_list_with_fallback lines 606-618: one page of
\* list_object_versions; NotImplemented or AccessDenied starts the plain listing
DeleteBucket_ListVersions ==
    /\ pc = "list_object_versions"
    /\ \E resp \in FaultsOf({"error", "NotImplemented", "AccessDenied", "NoSuchBucket"})
                   \cup {"200"} :
         LET rest == VersionsAfter(remote.versions, frame.marker)
             page == VersionPage(remote.versions, frame.marker)
         IN
         /\ Issue("list_object_versions", "", resp)
         /\ CASE resp = "200" ->
                  /\ frame' = [frame EXCEPT
                        !.page = PageIdentifiers(page),
                        !.truncated = IsTruncated(rest),
                        !.marker = IF page = <<>> THEN frame.marker
                                   ELSE Rank(page[Len(page)])]
                  /\ IF page # <<>>
                     THEN Goto("delete_objects")
                     ELSE IF IsTruncated(rest)
                          THEN Goto("list_object_versions")
                          ELSE Goto("delete_bucket")
              [] resp \in IGNORE_S3_DROP_IN_EXCEPTIONS \cup {"AccessDenied"} ->
                  /\ frame' = [frame EXCEPT !.fallback = TRUE, !.marker = 0,
                                            !.page = <<>>]
                  /\ Goto("list_objects_v2")
              [] OTHER ->
                  /\ DeleteBucket_Except(resp)
                  /\ UNCHANGED frame
    /\ UNCHANGED <<params, s3_vars, remote, local_file, warnings, history>>

\* paginated_list lines 599-602 under the fallback: one page of list_objects_v2
DeleteBucket_ListKeys ==
    /\ pc = "list_objects_v2"
    /\ \E resp \in FaultsOf({"error", "NoSuchBucket"}) \cup {"200"} :
         LET rest == VersionsAfter(CurrentKeys(remote.versions), frame.marker)
             page == VersionPage(CurrentKeys(remote.versions), frame.marker)
         IN
         /\ Issue("list_objects_v2", "", resp)
         /\ IF resp = "200"
            THEN /\ frame' = [frame EXCEPT
                        !.page = KeyIdentifiers(page),
                        !.truncated = IsTruncated(rest),
                        !.marker = IF page = <<>> THEN frame.marker
                                   ELSE Rank(page[Len(page)])]
                 /\ IF page # <<>>
                    THEN Goto("delete_objects")
                    ELSE IF IsTruncated(rest)
                         THEN Goto("list_objects_v2")
                         ELSE Goto("delete_bucket")
            ELSE /\ DeleteBucket_Except(resp)
                 /\ UNCHANGED frame
    /\ UNCHANGED <<params, s3_vars, remote, local_file, warnings, history>>

\* delete_bucket lines 664-666: delete_objects for what the listing yielded, a
\* whole page of versions or, under the fallback, one key
DeleteBucket_DeleteObjects ==
    /\ pc = "delete_objects"
    /\ \E resp \in FaultsOf({"error", "NoSuchBucket"}) \cup {"200"} :
         LET batch == IF frame.fallback THEN <<Head(frame.page)>> ELSE frame.page
             left == IF frame.fallback THEN Tail(frame.page) ELSE <<>>
         IN
         /\ Issue("delete_objects", batch, resp)
         /\ IF resp = "200"
            THEN /\ remote' = [remote EXCEPT !.versions =
                        DeleteObjects(remote.versions, remote.versioning, batch)]
                 /\ frame' = [frame EXCEPT !.page = left]
                 /\ IF left # <<>>
                    THEN Goto("delete_objects")
                    ELSE IF frame.truncated
                         THEN Goto(IF frame.fallback THEN "list_objects_v2"
                                   ELSE "list_object_versions")
                         ELSE Goto("delete_bucket")
            ELSE /\ DeleteBucket_Except(resp)
                 /\ UNCHANGED <<remote, frame>>
    /\ UNCHANGED <<params, s3_vars, local_file, warnings, history>>

\* delete_bucket lines 667-668 and s3_object_do_delete's exit_json: the bucket
\* goes only when it is empty
DeleteBucket_Delete ==
    /\ pc = "delete_bucket"
    /\ \E resp \in FaultsOf({"error", "NoSuchBucket"})
                   \cup {IF remote.versions = {} THEN "200" ELSE "BucketNotEmpty"} :
         /\ Issue("delete_bucket", "", resp)
         /\ IF resp = "200"
            THEN /\ remote' = [remote EXCEPT !.bucketExists = FALSE]
                 /\ End(ExitJson("Bucket and all keys have been deleted.", TRUE))
            ELSE /\ DeleteBucket_Except(resp)
                 /\ UNCHANGED remote
    /\ UNCHANGED <<params, s3_vars, local_file, frame, warnings, history>>

---------------------------------------------------------------------------
(* s3_object_do_getstr and download_s3str, lines 927-962 and 1498-1538 *)

\* A read that leaves the version out.
ReadTarget_NoVersion(v) == [Key |-> v.object, VersionId |-> "None"]

\* What the second download_s3str call is asked to read, lines 1525-1531
ReadTarget(v) == [Key |-> v.object, VersionId |-> params.version]

\* s3_object_do_getstr lines 1499-1506 and 1532-1538: the key probe
Getstr_KeyCheck ==
    /\ pc = "getstr"
    /\ \E resp \in HeadObject :
         LET r == key_check(resp, s3_vars.validate) IN
         /\ Issue("head_object", "", resp)
         /\ CASE r.out = "fail_json_aws" ->
                  End(FailJsonAws("Failed while looking up object (during key check)", resp))
              [] r.out = "S3ObjectFailure" ->
                  End(S3ObjectFailure("Failed while looking up object (during key check)", resp))
              [] r.val -> Goto("download_s3str")
              [] OTHER ->
                  End(FailJson(IF params.version # "None"
                               THEN "Key with version id does not exist."
                               ELSE "Key does not exist."))
    /\ UNCHANGED <<params, s3_vars, remote, local_file, frame, warnings, history>>

\* download_s3str lines 928-962 as s3_object_do_getstr calls it: under the try
\* of line 1507 a Sigv4Required makes the handler connect again with
\* sig_4=True and call once more (lines 1516-1531); nothing catches a second one
Download_S3str ==
    /\ pc = "download_s3str"
    /\ IF params.check_mode
       THEN /\ End(ExitJson("GET operation skipped - running in check mode", TRUE))
            /\ UNCHANGED <<frame, calls, faultsLeft>>
       ELSE \E resp \in GetObject :
            /\ Issue("get_object",
                     IF frame.reconnects = 0 THEN [Key |-> s3_vars.object,
                                                   VersionId |-> params.version]
                     ELSE ReadTarget(s3_vars),
                     resp)
            /\ CASE resp = "200" ->
                     /\ End([ExitJson("GET operation complete", TRUE)
                               EXCEPT !.contents = to_native(remote.obj.content)])
                     /\ UNCHANGED frame
                 [] resp = "SignatureVersion4" ->
                     IF frame.reconnects = 0
                     THEN /\ Goto("download_s3str")
                          /\ frame' = [frame EXCEPT !.sig_4 = TRUE,
                                                    !.reconnects = 1]
                     ELSE /\ End(Crash("Sigv4Required"))
                          /\ UNCHANGED frame
                 [] resp = "InvalidArgument" ->
                     /\ End(FailJsonAws("Failed while getting contents of object as a string.", resp))
                     /\ UNCHANGED frame
                 [] OTHER ->
                     /\ End(S3ObjectFailure("Failed while getting contents of object as a string.", resp))
                     /\ UNCHANGED frame
    /\ UNCHANGED <<params, s3_vars, remote, local_file, warnings, history>>

---------------------------------------------------------------------------
(* s3_object_do_geturl and s3_object_do_list, lines 625-643, 1393-1407 and
   1468-1495 *)

\* s3_object_do_geturl lines 1473-1480 and 1495: key_check; an absent key fails
Geturl_KeyCheck ==
    /\ pc = "geturl"
    /\ \E resp \in HeadObject :
         LET r == key_check(resp, s3_vars.validate) IN
         /\ Issue("head_object", "", resp)
         /\ CASE r.out = "fail_json_aws" ->
                  End(FailJsonAws("Failed while looking up object (during key check)", resp))
              [] r.out = "S3ObjectFailure" ->
                  End(S3ObjectFailure("Failed while looking up object (during key check)", resp))
              [] r.val -> Goto("geturl_tags")
              [] OTHER -> End(FailJson("Key does not exist."))
    /\ UNCHANGED <<params, s3_vars, remote, local_file, frame, warnings, history>>

\* geturl converging the tags as the skip of a put does: a tag write.
Geturl_Tags_Ensure ==
    /\ pc = "geturl_tags"
    /\ Issue("put_object_tagging", "", "200")
    /\ Goto("get_download_url")
    /\ frame' = [frame EXCEPT !.changed = TRUE]
    /\ UNCHANGED <<params, s3_vars, remote, local_file, warnings, history>>

\* s3_object_do_geturl lines 1481-1494: get_current_object_tags_dict, whose
\* faults nothing catches, then get_download_url with its default changed=True
Geturl_Tags ==
    /\ pc = "geturl_tags"
    /\ \E resp \in OnObject :
       \E seen \in VisibleTagSets :
         /\ Issue("get_object_tagging", "", resp)
         /\ IF resp # "200"
            THEN /\ End(Crash("ClientError"))
                 /\ UNCHANGED frame
            ELSE /\ Goto("get_download_url")
                 /\ frame' = [frame EXCEPT
                        !.current_tags_dict = boto3_tag_list_to_ansible_dict(seen),
                        !.changed = TRUE]
    /\ UNCHANGED <<params, s3_vars, remote, local_file, warnings, history>>

\* s3_object_do_list lines 1395-1398: no bucket, no listing
List_Begin ==
    /\ pc = "list"
    /\ IF ~s3_vars.bucketrtn
       THEN End(FailJson("Target bucket cannot be found"))
       ELSE Goto("list_keys")
    /\ UNCHANGED <<params, s3_vars, remote, local_file, frame, calls, warnings,
                   history, faultsLeft>>

\* list_keys lines 625-643 with paginated_list: the keys of the bucket, which
\* fit one page of list_objects_v2 here; exit_json names no changed
ListKeys ==
    /\ pc = "list_keys"
    /\ \E resp \in Faults \cup {IF remote.bucketExists THEN "200" ELSE "404"} :
         /\ Issue("list_objects_v2", "", resp)
         /\ IF resp # "200"
            THEN End(S3ObjectFailure("Failed while listing the keys in the bucket", resp))
            ELSE End(ExitJson("LIST operation complete", FALSE))
    /\ UNCHANGED <<params, s3_vars, remote, local_file, frame, warnings, history>>

---------------------------------------------------------------------------
(* s3_object_do_copy and copy_object_to_bucket, lines 1002-1079 and 1541-1566 *)

\* The answers to head_object on the source of a copy.
HeadSource == Faults \cup {IF remote.src.exists THEN "200" ELSE "404"}

\* Line 1036 copying whatever the ETags.
SameEtag_Never(s_etag, d_etag) == FALSE

\* The test of line 1036: the destination already holds what the source holds.
SameEtag(s_etag, d_etag) == s_etag = d_etag

\* s3_object_do_copy lines 1544-1555: the destination's ETag by get_etag, which
\* catches only a 404, or the creation of the bucket
Copy_Begin ==
    /\ pc = "copy"
    /\ IF s3_vars.bucketrtn
       THEN \E resp \in HeadObject :
            /\ Issue("head_object", "", resp)
            /\ IF resp \notin {"200", "404"}
               THEN /\ End(Crash("ClientError"))
                    /\ UNCHANGED <<frame, s3_vars>>
               ELSE /\ Goto("copy_object_to_bucket")
                    /\ frame' = [frame EXCEPT !.d_etag =
                           IF resp = "200" THEN remote.obj.ETag ELSE NoEtag]
                    /\ UNCHANGED s3_vars
       ELSE /\ Goto("create_bucket")
            /\ s3_vars' = [s3_vars EXCEPT !.permission = s3_vars.bucket_acl]
            /\ frame' = [frame EXCEPT !.ret = "copy_object_to_bucket",
                                      !.d_etag = NoEtag]
            /\ UNCHANGED <<calls, faultsLeft>>
    /\ UNCHANGED <<params, remote, local_file, warnings, history>>

\* Lines 1553-1555, then copy_object_to_bucket lines 1005-1032: the check-mode
\* exit and the key probe of the source
Copy_KeyCheck ==
    /\ pc = "copy_object_to_bucket"
    /\ s3_vars' = IF ~s3_vars.acl_disabled
                  THEN [s3_vars EXCEPT !.permission = s3_vars.object_acl]
                  ELSE s3_vars
    /\ IF params.check_mode
       THEN /\ End(ExitJson("COPY operation skipped - running in check mode", TRUE))
            /\ UNCHANGED <<calls, faultsLeft>>
       ELSE \E resp \in HeadSource :
            LET r == key_check(resp, s3_vars.validate) IN
            /\ Issue("head_object", "copy_src", resp)
            /\ CASE r.out = "fail_json_aws" ->
                     End(FailJsonAws("Failed while looking up object (during key check)", resp))
                 [] r.out = "S3ObjectFailure" ->
                     End(S3ObjectFailure("Failed while looking up object (during key check)", resp))
                 [] r.val -> Goto("copy_get_etag")
                 [] OTHER ->
                     End(ExitJson("Key does not exist in bucket.", FALSE))
    /\ UNCHANGED <<params, remote, local_file, frame, warnings, history>>

\* copy_object_to_bucket lines 1033-1036: the source's ETag and the comparison
Copy_GetEtag ==
    /\ pc = "copy_get_etag"
    /\ \E resp \in HeadSource :
         LET s_etag == IF resp = "200" THEN remote.src.ETag ELSE NoEtag IN
         /\ Issue("head_object", "copy_src", resp)
         /\ IF resp \notin {"200", "404"}
            THEN /\ End(S3ObjectFailure("Failed while copying object", resp))
                 /\ UNCHANGED frame
            ELSE IF SameEtag(s_etag, frame.d_etag)
            THEN /\ Goto("ensure_tags")
                 /\ frame' = [frame EXCEPT !.ret = "copy_same", !.s3_etag = s_etag]
            ELSE /\ Goto("copy_object")
                 /\ frame' = [frame EXCEPT !.s3_etag = s_etag]
    /\ UNCHANGED <<params, s3_vars, remote, local_file, warnings, history>>

\* copy_object_to_bucket lines 1051-1062: copy_object, then put_object_acl,
\* whatever acl_disabled says
Copy_CopyObject ==
    /\ pc = "copy_object"
    /\ \E resp \in Faults \cup {IF remote.bucketExists /\ remote.src.exists
                                THEN "200" ELSE "404"} :
       \E kind \in {"md5", "opaque"} :
         /\ Issue("copy_object", "copy_src", resp)
         /\ IF resp # "200"
            THEN /\ End(S3ObjectFailure("Failed while copying object", resp))
                 /\ UNCHANGED <<remote, frame>>
            ELSE /\ remote' = [remote EXCEPT
                        !.obj = Object(remote.src.content, kind, MaxTime),
                        !.TagSet = {}, !.staleTagSet = {}]
                 /\ frame' = [frame EXCEPT !.idx = 1, !.ret = "copy_done"]
                 /\ IF Len(params.permission) > 0
                    THEN Goto("put_object_acl")
                    ELSE Goto("ensure_tags")
    /\ UNCHANGED <<params, s3_vars, local_file, warnings, history>>

\* copy_object_to_bucket's exit_json calls, lines 1039-1048 and 1065-1070
Copy_Exit ==
    /\ pc = "copy_exit"
    /\ End(IF frame.ret = "copy_same"
           THEN IF ~frame.changed
                THEN ExitJson("ETag from source and destination are the same", FALSE)
                ELSE [ExitJson("tags successfully updated.", TRUE)
                        EXCEPT !.tags = {frame.current_tags_dict}]
           ELSE [ExitJson("Object copied from bucket to bucket.", TRUE)
                   EXCEPT !.tags = {frame.current_tags_dict}])
    /\ UNCHANGED <<params, s3_vars, remote, local_file, frame, calls, warnings,
                   history, faultsLeft>>

---------------------------------------------------------------------------
(* lambda_alias.py: the alias reconciler *)

\* The characters \w of validate_params' pattern that the names here use.
WordChars == {"f", "n", "1", "_"}

\* The characters of the function names taken here.
Characters(function_name) ==
    CASE function_name = "fn-1" -> <<"f", "n", "-", "1">>
      [] function_name = "f n" -> <<"f", " ", "n">>
      [] function_name = "" -> <<>>

\* re.search(r"^[\w\-:]+$", function_name)
NameMatches(function_name) ==
    /\ Len(Characters(function_name)) > 0
    /\ \A i \in 1..Len(Characters(function_name)) :
          Characters(function_name)[i] \in WordChars \cup {"-", ":"}

\* validate_params lines 203-206: 0 is $LATEST, any other version its str()
VersionString(function_version) ==
    IF function_version = 0 THEN "$LATEST" ELSE ToString(function_version)

\* The alias of the function under the name asked for, as get_alias returns it.
NoAlias == [exists |-> FALSE, function_version |-> "None", description |-> ""]
Alias(version, description) ==
    [exists |-> TRUE, function_version |-> version, description |-> description]

\* Python's truth of a parameter value: None and the empty string are false.
Truthy(value) == value \notin {"None", ""}

\* set_api_params: the parameters of `names` that are set and not empty
set_api_params(module_params, names) ==
    [n \in {m \in names : Truthy(module_params[m])} |-> module_params[n]]

alias_params == {"function_version", "description"}

\* lambda_alias lines 256-260: a parameter that is given and is not what the
\* alias holds
AliasChanged(module_params, facts) ==
    \E param \in alias_params :
        /\ module_params[param] # "None"
        /\ module_params[param] # facts[param]

\* Lines 268, 279 and 291 writing in check mode too.
MayWrite_Always(check_mode) == TRUE

\* The test of lines 268, 279 and 291: the write is made outside check mode.
MayWrite(check_mode) == ~check_mode

\* The alias after update_alias or create_alias with these parameters.
Written(alias, api_params) ==
    Alias(IF "function_version" \in DOMAIN api_params
          THEN api_params["function_version"] ELSE alias.function_version,
          IF "description" \in DOMAIN api_params
          THEN api_params["description"] ELSE alias.description)

\* validate_params lines 186-208
Alias_ValidateParams ==
    /\ pc = "validate_params"
    /\ IF ~NameMatches(params.function_name)
       THEN /\ End(FailJson("Function name is invalid. Names must contain only alphanumeric characters and hyphens."))
            /\ UNCHANGED frame
       ELSE IF Len(Characters(params.function_name)) > 64
       THEN /\ End(FailJson("Function name exceeds 64 character limit"))
            /\ UNCHANGED frame
       ELSE /\ Goto("get_alias")
            /\ frame' = [module_params |->
                            [params EXCEPT !.function_version =
                                VersionString(params.function_version)],
                         facts |-> NoAlias, changed |-> FALSE]
    /\ UNCHANGED <<params, s3_vars, remote, local_file, calls, warnings,
                   history, faultsLeft>>

\* get_lambda_alias lines 211-231, then lambda_alias lines 241-295 up to the
\* write it decides on
Alias_Get ==
    /\ pc = "get_alias"
    /\ \E resp \in Faults \cup {IF remote.alias.exists THEN "200"
                                ELSE "ResourceNotFoundException"} :
         LET facts == remote.alias
             state == params.state
             changed == IF state = "present"
                        THEN IF facts.exists
                             THEN AliasChanged(frame.module_params, facts)
                             ELSE TRUE
                        ELSE facts.exists
         IN
         /\ Issue("get_alias",
                  set_api_params(frame.module_params, {"function_name", "name"}),
                  resp)
         /\ IF resp \in FaultCodes
            THEN /\ End(FailJsonAws("Error retrieving function alias", resp))
                 /\ UNCHANGED frame
            ELSE /\ frame' = [frame EXCEPT !.facts = facts, !.changed = changed]
                 /\ IF changed /\ MayWrite(params.check_mode)
                    THEN Goto(CASE state = "absent" -> "delete_alias"
                                [] facts.exists -> "update_alias"
                                [] OTHER -> "create_alias")
                    ELSE End(ExitJson("", changed))
    /\ UNCHANGED <<params, s3_vars, remote, local_file, warnings, history>>

\* Lines 264-272: update_alias with the version and the description that are set
Alias_Update ==
    /\ pc = "update_alias"
    /\ \E resp \in Faults \cup {"200"} :
         LET api_params == set_api_params(frame.module_params,
                              {"function_name", "name"} \cup alias_params) IN
         /\ Issue("update_alias", api_params, resp)
         /\ IF resp # "200"
            THEN /\ End(FailJsonAws("Error updating function alias", resp))
                 /\ UNCHANGED remote
            ELSE /\ End(ExitJson("", TRUE))
                 /\ remote' = [remote EXCEPT !.alias = Written(remote.alias, api_params)]
    /\ UNCHANGED <<params, s3_vars, local_file, frame, warnings, history>>

\* Lines 274-283: create_alias
Alias_Create ==
    /\ pc = "create_alias"
    /\ \E resp \in Faults \cup {"200"} :
         LET api_params == set_api_params(frame.module_params,
                              {"function_name", "name"} \cup alias_params) IN
         /\ Issue("create_alias", api_params, resp)
         /\ IF resp # "200"
            THEN /\ End(FailJsonAws("Error creating function alias", resp))
                 /\ UNCHANGED remote
            ELSE /\ End(ExitJson("", TRUE))
                 /\ remote' = [remote EXCEPT !.alias = Written(Alias("None", ""), api_params)]
    /\ UNCHANGED <<params, s3_vars, local_file, frame, warnings, history>>

\* Lines 285-295: delete_alias
Alias_Delete ==
    /\ pc = "delete_alias"
    /\ \E resp \in Faults \cup {"200"} :
         /\ Issue("delete_alias",
                  set_api_params(frame.module_params, {"function_name", "name"}),
                  resp)
         /\ IF resp # "200"
            THEN /\ End(FailJsonAws("Error deleting function alias", resp))
                 /\ UNCHANGED remote
            ELSE /\ End(ExitJson("", TRUE))
                 /\ remote' = [remote EXCEPT !.alias = NoAlias]
    /\ UNCHANGED <<params, s3_vars, local_file, frame, warnings, history>>

---------------------------------------------------------------------------
(* One invocation after another *)

\* What is kept of an invocation that ended.
Run == [params |-> params, result |-> result, calls |-> calls]

\* The module is invoked again with the same parameters, against the remote
\* state the last invocation left.
Rerun ==
    /\ pc = "done"
    /\ Len(history) + 1 < MaxRuns
    /\ history' = Append(history, Run)
    /\ pc' = "populate_facts"
    /\ s3_vars' = NoVars
    /\ frame' = NoFrame
    /\ result' = NoResult
    /\ calls' = <<>>
    /\ warnings' = {}
    /\ UNCHANGED <<params, remote, local_file, faultsLeft>>

\* After a put the module is invoked with mode=getstr on the same bucket and
\* key, against the remote state the put left.
Invoke_Getstr ==
    /\ pc = "done"
    /\ params.mode = "put"
    /\ Len(history) + 1 < MaxRuns
    /\ history' = Append(history, Run)
    /\ params' = Request("getstr", FALSE, "different",
                         params.ignore_nonexistent_bucket, FALSE, NoContent,
                         <<"private">>, FALSE, EmptyDict, TRUE)
    /\ pc' = "populate_facts"
    /\ s3_vars' = NoVars
    /\ frame' = NoFrame
    /\ result' = NoResult
    /\ calls' = <<>>
    /\ warnings' = {}
    /\ UNCHANGED <<remote, local_file, faultsLeft>>

\* The reconciler is invoked again with the same parameters: outside check
\* mode after an invocation in check mode, in the mode it ran in otherwise.
Alias_Rerun ==
    /\ pc = "done"
    /\ Len(history) + 1 < MaxRuns
    /\ history' = Append(history, Run)
    /\ \E check \in {FALSE, params.check_mode} :
          params' = [params EXCEPT !.check_mode = check]
    /\ pc' = "validate_params"
    /\ frame' = NoFrame
    /\ result' = NoResult
    /\ calls' = <<>>
    /\ warnings' = {}
    /\ UNCHANGED <<s3_vars, remote, local_file, faultsLeft>>

---------------------------------------------------------------------------
(* Two invocations at once *)

\* What an invocation holds of its own: its parameters, its locals, its place
\* in the code and its call log.  The remote state is shared.
Context ==
    [params |-> params, s3_vars |-> s3_vars, local_file |-> local_file,
     pc |-> pc, frame |-> frame, result |-> result, calls |-> calls,
     warnings |-> warnings]

\* An invocation with request p that has not taken a step.
Waiting(p, f) ==
    [params |-> p, s3_vars |-> NoVars, local_file |-> f,
     pc |-> "populate_facts", frame |-> NoFrame, result |-> NoResult,
     calls |-> <<>>, warnings |-> {}]

\* Two module processes run against one bucket; nothing orders their remote
\* calls.  The process that was running waits in history, the one that waited
\* goes on from where it stopped: after a remote call of its own, before the
\* next.
Switch ==
    /\ Len(history) = 1
    /\ history' = <<Context>>
    /\ params' = history[1].params
    /\ s3_vars' = history[1].s3_vars
    /\ local_file' = history[1].local_file
    /\ pc' = history[1].pc
    /\ frame' = history[1].frame
    /\ result' = history[1].result
    /\ calls' = history[1].calls
    /\ warnings' = history[1].warnings
    /\ UNCHANGED <<remote, faultsLeft>>

---------------------------------------------------------------------------
(* Specification of the transfer modes, put and get *)

Overwrites == {"always", "never", "different", "latest"}

Permissions == {<<"private">>, <<"bucket-owner-read", "public-read">>}

\* tags / purge_tags as <<tags is not None, tags, purge_tags>>
TagChoices ==
    {<<FALSE, EmptyDict, TRUE>>, <<TRUE, Dict1("b", "2"), TRUE>>,
     <<TRUE, Dict1("b", "2"), FALSE>>, <<TRUE, EmptyDict, TRUE>>}

\* The source of a put as <<src given, content, the file at src>>
PutSources(ow) ==
    {<<FALSE, NoContent, NoFile>>, <<TRUE, NoContent, NoFile>>}
    \cup {<<FALSE, c, NoFile>> : c \in Contents}
    \cup {<<TRUE, NoContent, File(c, t)>> :
            c \in Blobs, t \in IF ow = "latest" THEN Times ELSE {0}}

RemoteObjects(ow) ==
    {NoObject}
    \cup {Object(c, kind, t) :
            c \in Blobs, kind \in EtagKinds,
            t \in IF ow = "latest" THEN Times ELSE {0}}

RemoteTagSets == {{}, ansible_dict_to_boto3_tag_list(Dict1("a", "1"))}

\* The remote states an invocation may meet.
Remotes(ow) ==
    {Remote(FALSE, "None", FALSE, FALSE, NoObject, {}),
     Remote(TRUE, "None", TRUE, FALSE, NoObject, {})}
    \cup {Remote(TRUE, own, FALSE, hod, obj, IF obj.exists THEN ts ELSE {}) :
            own \in {"ObjectWriter", "BucketOwnerEnforced"}, hod \in BOOLEAN,
            obj \in RemoteObjects(ow), ts \in RemoteTagSets}

\* The file at dest of a get
GetDests(ow) ==
    {NoFile}
    \cup {File(c, t) : c \in Blobs, t \in IF ow = "latest" THEN Times ELSE {0}}

Retries == 0..MaxRetries

InitPut ==
    \E check \in BOOLEAN, ow \in Overwrites, ign \in BOOLEAN,
       perm \in Permissions, tc \in TagChoices :
    \E src \in PutSources(ow), r \in Remotes(ow) :
        Start(Request("put", check, ow, ign, src[1], src[2], perm,
                      tc[1], tc[2], tc[3]),
              r, src[3])

InitGet ==
    \E check \in BOOLEAN, ow \in Overwrites, ign \in BOOLEAN, n \in Retries :
    \E dest \in GetDests(ow), r \in Remotes(ow) :
        Start([Request("get", check, ow, ign, FALSE, NoContent, <<"private">>,
                       FALSE, EmptyDict, TRUE) EXCEPT !.retries = n],
              r, dest)

Init == InitPut \/ InitGet

NextPut ==
    \/ populate_facts
    \/ ValidateBucket_Exists
    \/ ValidateBucket_Ownership
    \/ ValidateBucket_Bucketrtn
    \/ Put_Begin
    \/ Put_KeyCheck
    \/ Put_Overwrite
    \/ Put_EtagCompare
    \/ CreateBucket_Create
    \/ CreateBucket_Acl
    \/ Upload
    \/ PutObjectAcl
    \/ EnsureTags_Fetch
    \/ EnsureTags_Put
    \/ EnsureTags_Delete
    \/ WaitTags_Poll
    \/ GetDownloadUrl
    \/ PutDownloadUrl

NextGet ==
    \/ Get_KeyCheck
    \/ Get_EtagCompare
    \/ Get_Latest
    \/ Download_GetObject
    \/ Download_File

Next == NextPut \/ NextGet

Spec == Init /\ [][Next]_vars

---------------------------------------------------------------------------
(* Properties of put and get *)

Ended == pc = "done"
Exited == pc = "done" /\ result.status = "exit"

\* The data of a put is given and, when it is a file, the file is there.
ValidSource == params.content # NoContent \/ (params.src /\ local_file.exists)

\* The remote ETag is a digest of exactly the local data.
SameFingerprint(etag) ==
    etag.kind \in {"md5", "multipart"} /\ etag.of = LocalData(params, local_file)

\* The local file exists and is at least as recent as the remote object.
LocalIsLatest ==
    local_file.exists /\ local_file.mtime >= remote.obj.LastModified

\* C1: in put mode with overwrite=never and the key probe reporting Present, no
\* upload_file / upload_fileobj call is issued; when the invocation exits, the
\* tags were fetched for convergence, a URL is returned, and changed is true
\* exactly when a tag write was carried out.
C1_NeverSkipsTransfer ==
    (params.mode = "put" /\ params.overwrite = "never" /\ frame.keyrtn) =>
        /\ NumCalls(TransferOps) = 0
        /\ pc \notin {"upload_s3file", "put_etag_compare"}
        /\ Exited =>
            /\ NumCalls({"get_object_tagging"}) >= 1
            /\ result.url # "None"
            /\ result.changed = (Done(calls, TagWriteOps) # {})

C1_Witness ==
    /\ Exited /\ params.mode = "put" /\ params.overwrite = "never"
    /\ frame.keyrtn /\ result.changed /\ result.url # "None"
    /\ Done(calls, TagWriteOps) # {}

\* The calls that precede the transfer decision of a put.
BeforeTransfer ==
    {"head_bucket", "get_bucket_ownership_controls", "head_object",
     "create_bucket", "put_bucket_acl"}

\* C2: in put mode with overwrite=always, outside check mode and with a valid
\* source, the fingerprint is never consulted and the skip branch never taken;
\* an invocation that ends has issued exactly one transfer call, unless a fault of
\* a call before the transfer (the probes, the bucket creation) ended it first.
C2_AlwaysTransfers ==
    (params.mode = "put" /\ params.overwrite = "always" /\ ~params.check_mode
        /\ ValidSource) =>
        /\ pc # "put_etag_compare"
        /\ frame.ret # "put_skip"
        /\ Ended =>
            \/ NumCalls(TransferOps) = 1
            \/ /\ result.status \in {"fail", "crash"}
               /\ Last(calls).op \in BeforeTransfer
               /\ Last(calls).resp \notin {"200", "404"}

C2_Witness ==
    /\ Exited /\ params.mode = "put" /\ params.overwrite = "always"
    /\ ~params.check_mode /\ frame.keyrtn /\ NumCalls(TransferOps) = 1

\* C3: in put mode with overwrite=different and a Present object whose ETag was
\* read: if the ETag is the fingerprint of the local data no transfer call is
\* issued, and an exit has fetched the tags and returns a URL; if it is not,
\* exactly one transfer call is issued (outside check mode, where upload_s3file
\* exits before the call).
C3_DifferentComparesFingerprint ==
    (params.mode = "put" /\ params.overwrite = "different" /\ frame.keyrtn
        /\ frame.s3_etag # NoEtag) =>
        IF SameFingerprint(frame.s3_etag)
        THEN /\ NumCalls(TransferOps) = 0
             /\ pc # "upload_s3file"
             /\ Exited => /\ NumCalls({"get_object_tagging"}) >= 1
                          /\ result.url # "None"
        ELSE ~params.check_mode =>
                NumCalls(TransferOps) = IF pc = "upload_s3file" THEN 0 ELSE 1

C3_Witness ==
    /\ Exited /\ params.mode = "put" /\ params.overwrite = "different"
    /\ frame.keyrtn /\ frame.s3_etag # NoEtag
    /\ ~SameFingerprint(frame.s3_etag) /\ NumCalls(TransferOps) = 1

\* The object is there and its head can be read.
ObjectPresent ==
    frame.keyrtn /\ remote.obj.exists /\ ~remote.headObjectDenied

GetSkippedAsLatest ==
    /\ Exited
    /\ result.msg = "Local object is latest, ignoreing. Use overwrite=always parameter to force."

\* C4 as stated: under overwrite=latest with a Present object, put and get alike
\* skip the transfer iff the local file exists and is at least as recent as the
\* remote object.
C4_LatestInPutAndGet ==
    (params.overwrite = "latest" /\ ObjectPresent) =>
        /\ pc \in {"upload_s3file", "download_s3file"} => ~LocalIsLatest
        /\ (frame.ret = "put_skip" \/ GetSkippedAsLatest) => LocalIsLatest

\* C4 as amended: under overwrite=latest with a Present object, get skips the
\* download iff the local file exists and is at least as recent as the remote object;
\* put does not look at the times and skips the upload iff the remote ETag is the
\* fingerprint of the local data, as under overwrite=different.
C4_LatestInGetOnly ==
    (params.overwrite = "latest" /\ ObjectPresent) =>
        /\ params.mode = "get" =>
            /\ pc = "download_s3file" => ~LocalIsLatest
            /\ GetSkippedAsLatest => LocalIsLatest
        /\ params.mode = "put" =>
            /\ pc = "upload_s3file" => ~SameFingerprint(remote.obj.ETag)
            /\ frame.ret = "put_skip" => SameFingerprint(frame.s3_etag)

C4_Witness ==
    /\ params.mode = "get" /\ params.overwrite = "latest" /\ ObjectPresent
    /\ GetSkippedAsLatest
    /\ local_file.mtime = remote.obj.LastModified

\* C9 as stated, for put: when head_object answers Forbidden and validate is
\* false, the probe reports Present and the decision whether to skip completes
\* without a fatal error: no invocation ends in a failure or a crash on a
\* head_object call.
C9_ForbiddenProbeIsPresent ==
    (params.mode = "put" /\ remote.headObjectDenied /\ ~s3_vars.validate
        /\ faultsLeft = MaxFaults /\ Ended /\ calls # <<>>) =>
        ~(result.status \in {"fail", "crash"} /\ Last(calls).op = "head_object")

\* C10 as stated: with ignore_nonexistent_bucket, a Forbidden answer to
\* head_bucket never ends the invocation in a failure.
C10_ForbiddenBucketIsPresent ==
    (params.ignore_nonexistent_bucket /\ Ended /\ calls # <<>>) =>
        ~(/\ result.status \in {"fail", "crash"}
          /\ Last(calls).op = "head_bucket"
          /\ Last(calls).resp = "403")

\* The one fault of the log is a "require AWS Signature Version 4" answer to
\* the first get_object.
OnlySigv4OnFirstRead(log) ==
    /\ CallsOf(log, {"get_object"}) # {}
    /\ \A n \in 1..Len(log) :
         IF n = CHOOSE m \in CallsOf(log, {"get_object"}) :
                    \A k \in CallsOf(log, {"get_object"}) : m <= k
         THEN log[n].resp = "SignatureVersion4"
         ELSE log[n].resp \notin FaultCodes

\* C11 as stated: in get mode, when the first get_object of the download gets
\* the Signature Version 4 fault and every other call is answered, the handler
\* connects once more, reads again, and the invocation ends in a success.
C11_GetRetriesAfterSigv4 ==
    (params.mode = "get" /\ Ended /\ OnlySigv4OnFirstRead(calls)) =>
        /\ Exited
        /\ frame.reconnects = 1
        /\ NumCalls({"get_object"}) = 2

\* C15 as stated: no put_bucket_acl call carries a canned ACL that is not valid
\* for a bucket.
C15_BucketAclsOnly ==
    \A n \in CallsOf(calls, {"put_bucket_acl"}) : calls[n].arg \in bucket_canned_acl

AclOps == {"put_object_acl", "put_bucket_acl"}

\* C16 as stated: when the backend answers an ACL call with "not implemented"
\* the module warns and goes on; the invocation does not fail on that call.
C16_UnimplementedAclWarns ==
    \A n \in CallsOf(calls, AclOps) :
        calls[n].resp \in IGNORE_S3_DROP_IN_EXCEPTIONS =>
            /\ warnings # {}
            /\ ~(Ended /\ result.status = "fail" /\ n = Len(calls))

\* Every call of ops1 in the log comes before every call of ops2.
Before(ops1, ops2) ==
    \A m \in CallsOf(calls, ops1), n \in CallsOf(calls, ops2) : m < n

TaggingOps == TagWriteOps \cup {"get_object_tagging"}

\* The ACLs the put_object_acl calls carried, in the order of the calls.
ObjectAclsSent ==
    LET at == InOrderOf(CallsOf(calls, {"put_object_acl"}))
    IN [i \in 1..Len(at) |-> calls[at[i]].arg]

\* C17: in a put outside check mode that uploads, create_bucket (issued only
\* when no bucket was found) comes before the upload, the upload before every
\* put_object_acl, the put_object_acl calls follow the permission list in its
\* order, all of them before any tagging call, the tagging calls before the
\* presigning, and an exit follows a presigning that is the last call; with
\* ACLs enabled and every call answered there is one put_object_acl per
\* permission.
C17_PutCallOrder ==
    (params.mode = "put" /\ ~params.check_mode /\ NumCalls(TransferOps) > 0) =>
        /\ NumCalls(TransferOps) = 1
        /\ NumCalls({"create_bucket"}) > 0 => ~s3_vars.bucketrtn
        /\ Before({"create_bucket", "put_bucket_acl"}, TransferOps)
        /\ Before(TransferOps, {"put_object_acl"})
        /\ ObjectAclsSent = SubSeq(params.permission, 1, Len(ObjectAclsSent))
        /\ Before({"put_object_acl"}, TaggingOps)
        /\ Before(TransferOps, TaggingOps)
        /\ Before(TaggingOps, {"generate_presigned_url"})
        /\ Before(TransferOps, {"generate_presigned_url"})
        /\ Exited =>
              /\ Last(calls).op = "generate_presigned_url"
              /\ NumCalls({"generate_presigned_url"}) = 1
              /\ NumCalls({"get_object_tagging"}) >= 1
              /\ (NoFaultIn(calls) /\ ~s3_vars.acl_disabled) =>
                    ObjectAclsSent = params.permission

C17_Witness ==
    /\ params.mode = "put" /\ ~params.check_mode /\ Exited
    /\ NumCalls({"create_bucket"}) = 1
    /\ NumCalls(TransferOps) = 1
    /\ ObjectAclsSent = <<"bucket-owner-read", "public-read">>
    /\ NumCalls({"put_object_tagging"}) = 1

\* C18 as stated: every URL a put returns is presigned for the GET method.
C18_PutUrlIsForGet ==
    (params.mode = "put" /\ Exited /\ result.url # "None") =>
        result.url = "get_object"

\* The remote calls that create, overwrite or delete something.
MutatingOps ==
    {"create_bucket", "upload_file", "upload_fileobj", "put_object",
     "copy_object", "delete_object", "delete_objects", "delete_bucket",
     "put_bucket_acl", "put_object_acl", "put_object_tagging",
     "delete_object_tagging"}

\* C19 as stated: a check-mode invocation issues no mutating remote call.
C19_CheckModeIssuesNoWrite ==
    params.check_mode => NumCalls(MutatingOps) = 0

\* The failure messages of a malformed request.
ValidationFailures ==
    {"overwrite=different is unavailable: ETag calculation requires MD5 support",
     "Parameter obj cannot be used with mode=delete",
     "Unknown permission specified",
     "Either content, content_base64 or src must be specified for PUT operations",
     "Local object does not exist for PUT operation"}

\* C21 as stated: an invocation that fails on a malformed request has issued
\* no remote call at all, read-only probes included.
C21_ValidationBeforeAnyCall ==
    (Ended /\ result.status = "fail" /\ result.msg \in ValidationFailures)
        => calls = <<>>

\* The faults the backend answered with in a log.
FaultsIn(log) == {log[n].resp : n \in 1..Len(log)} \cap FaultCodes

\* The faults of an operation the backend does not support.
UnsupportedFaults == {"NotImplemented", "AccessControlListNotSupported"}

\* C24 as stated: an invocation in which the backend answered a call with a
\* fault ends in a failure, or, the fault being one of an unsupported
\* operation, has emitted a warning; it never exits with neither.
C24_NoFaultSwallowed ==
    Ended => \A f \in FaultsIn(calls) :
        \/ result.status # "exit"
        \/ f \in UnsupportedFaults /\ warnings # {}

\* C28: a put issues at most one upload call; an upload the backend fails is
\* the last call of the invocation (no second upload, no put_object_acl, no
\* tagging call, no presigning), which ends at once in a failure that carries
\* the fault.
C28_UploadFailsAtOnce ==
    params.mode = "put" =>
        /\ NumCalls(TransferOps) <= 1
        /\ \A n \in CallsOf(calls, TransferOps) :
              calls[n].resp # "200" =>
                  /\ n = Len(calls)
                  /\ Ended /\ result.status = "fail"
                  /\ result.cause = calls[n].resp

\* A put whose upload the backend failed.
C28_Witness ==
    /\ params.mode = "put" /\ Ended
    /\ NumCalls(TransferOps) = 1
    /\ Last(calls).op \in TransferOps /\ Last(calls).resp = "error"
    /\ result.status = "fail" /\ result.cause = "error"
    /\ result.msg = "Unable to complete PUT operation."

---------------------------------------------------------------------------
(* Specification of the tag convergence: puts onto a present bucket, with every
   current and every desired tag set *)

\* tags as <<tags is not None, tags>>
TagInputs == {<<FALSE, EmptyDict>>} \cup {<<TRUE, d>> : d \in Dicts}

InitTags ==
    \E check \in BOOLEAN, ow \in {"never", "always"}, purge \in BOOLEAN :
    \E ti \in TagInputs, current \in Dicts :
        Start(Request("put", check, ow, FALSE, FALSE, <<104, 233>>, <<"private">>,
                      ti[1], ti[2], purge),
              Remote(TRUE, "ObjectWriter", FALSE, FALSE,
                     Object(utf8_encode(<<104, 233>>), "md5", 0),
                     ansible_dict_to_boto3_tag_list(current)),
              NoFile)

NextTags ==
    \/ populate_facts
    \/ ValidateBucket_Exists
    \/ ValidateBucket_Ownership
    \/ ValidateBucket_Bucketrtn
    \/ Put_Begin
    \/ Put_KeyCheck
    \/ Put_Overwrite
    \/ Upload
    \/ PutObjectAcl
    \/ EnsureTags_Fetch
    \/ EnsureTags_Put
    \/ EnsureTags_Delete
    \/ WaitTags_Poll
    \/ GetDownloadUrl
    \/ PutDownloadUrl

SpecTags == InitTags /\ [][NextTags]_vars

---------------------------------------------------------------------------
(* Properties of the tag convergence *)

\* ensure_tags has returned to its caller, which goes on to the URL.
EnsureTagsReturned ==
    \/ pc \in {"get_download_url", "put_download_url"}
    \/ pc = "done" /\ NumCalls({"generate_presigned_url"}) > 0

\* The tags on the object when ensure_tags fetched them, and now.
TagsBefore == boto3_tag_list_to_ansible_dict(remote.staleTagSet)
TagsNow == boto3_tag_list_to_ansible_dict(remote.TagSet)

TagsA1 == Dict1("a", "1")
TagsB2 == Dict1("b", "2")
TagsA1B2 == [k \in {"a", "b"} |-> IF k = "a" THEN "1" ELSE "2"]

\* C5: when ensure_tags returns with desired tags given, the tags on the object
\* and the tags it returns are exactly the target: the desired set under
\* purge_tags, else the set found with the desired entries laid over it (the
\* desired value wins); found {a:1} with desired {b:2} ends as {b:2} under purge
\* and as {a:1, b:2} without.
C5_TagsReachTarget ==
    (params.has_tags /\ EnsureTagsReturned) =>
        /\ frame.current_tags_dict = TagsNow
        /\ Exited => result.tags = {TagsNow}
        /\ IF params.purge_tags
           THEN TagsNow = params.tags
           ELSE /\ DOMAIN TagsNow = DOMAIN TagsBefore \cup DOMAIN params.tags
                /\ \A k \in DOMAIN TagsNow :
                     TagsNow[k] = IF k \in DOMAIN params.tags
                                  THEN params.tags[k] ELSE TagsBefore[k]
        /\ (TagsBefore = TagsA1 /\ params.tags = TagsB2) =>
               TagsNow = IF params.purge_tags THEN TagsB2 ELSE TagsA1B2
        /\ frame.changed = (TagsNow # TagsBefore)

C5_Witness ==
    /\ Exited
    /\ params.has_tags /\ ~params.purge_tags
    /\ TagsBefore = TagsA1 /\ params.tags = TagsB2
    /\ TagsNow = TagsA1B2
    /\ Done(calls, {"put_object_tagging"}) # {}
    /\ result.tags = {TagsA1B2}

TimedOut ==
    /\ pc = "done"
    /\ result.status = "fail"
    /\ result.msg = "Object tags failed to apply in the expected time."

\* The fetches of the tags made after the tag write.
PollsAfterWrite ==
    {n \in CallsOf(calls, {"get_object_tagging"}) :
        \E w \in CallsOf(calls, TagWriteOps) : w < n}

\* C6: while the fetches after the tag write show tags other than the target the
\* module fetches again, up to 12 times; the 12th such fetch ends the invocation
\* in a failure that carries the target as requested_tags and the tags last seen
\* as live_tags, and it is the last call made.
C6_TwelvePollsThenFail ==
    /\ pc = "wait_tags_are_applied" =>
           /\ Cardinality(PollsAfterWrite) < 12
           /\ frame.current_tags_dict # frame.tags \/ PollsAfterWrite = {}
    /\ TimedOut =>
           /\ Cardinality(PollsAfterWrite) = 12
           /\ \A n \in PollsAfterWrite : calls[n].resp = "200"
           /\ Last(calls).op = "get_object_tagging"
           /\ result.requested_tags = {TagsNow}
           /\ result.live_tags = {TagsBefore}
           /\ TagsNow # TagsBefore
    /\ (Ended /\ Cardinality(PollsAfterWrite) = 12) =>
           TimedOut \/ frame.current_tags_dict = frame.tags
                    \/ Last(calls).resp # "200"

C6_Witness ==
    /\ TimedOut
    /\ Cardinality(PollsAfterWrite) = 12
    /\ result.requested_tags = {TagsB2}
    /\ result.live_tags = {TagsA1}

\* The target of the convergence, from the tags a fetch showed.
TargetFrom(current) ==
    IF params.purge_tags THEN params.tags
    ELSE [k \in DOMAIN current \cup DOMAIN params.tags |->
             IF k \in DOMAIN params.tags THEN params.tags[k] ELSE current[k]]

C31_Step ==
    /\ (/\ pc = "ensure_tags" /\ Issues("get_object_tagging")
         /\ calls'[Len(calls')].resp = "200") =>
          LET current == frame'.current_tags_dict
              target == TargetFrom(current)
          IN /\ (pc' = "put_object_tagging") =
                   (params.has_tags /\ target # current /\ target # EmptyDict)
             /\ (pc' = "delete_object_tagging") =
                   (/\ params.has_tags /\ target # current /\ target = EmptyDict
                    /\ params.purge_tags)
             /\ (~params.has_tags \/ target = current) =>
                   /\ pc' \in {"get_download_url", "put_download_url"}
                   /\ ~frame'.changed
    /\ Issues("put_object_tagging") =>
          /\ pc = "put_object_tagging"
          /\ calls[Len(calls)].op = "get_object_tagging"
          /\ calls'[Len(calls')].resp = "200" =>
                remote'.TagSet = ansible_dict_to_boto3_tag_list(
                                     TargetFrom(frame.current_tags_dict))
    /\ Issues("delete_object_tagging") =>
          /\ pc = "delete_object_tagging"
          /\ calls[Len(calls)].op = "get_object_tagging"

C31_Calls ==
    /\ NumCalls(TagWriteOps) <= 1
    /\ (EnsureTagsReturned /\ NumCalls(TagWriteOps) = 0) =>
          /\ NumCalls({"get_object_tagging"}) = 1
          /\ ~frame.changed

\* C31: the step after ensure_tags' fetch is put_object_tagging iff desired
\* tags are given and the target differs from the tags fetched and is not
\* empty, and delete_object_tagging iff they are given, the target differs, is
\* empty and purge_tags is set; a tag write is made from nowhere else, once at
\* most, and put_object_tagging stores the whole target; with no desired tags
\* or a target equal to the tags fetched, ensure_tags returns unchanged after
\* that one fetch, with no write and no poll.
C31_TagWriteOnlyWhenNeeded == []C31_Calls /\ [][C31_Step]_vars

\* Desired tags that are what the object carries: one fetch, no write.
C31_Witness ==
    /\ params.has_tags /\ params.tags = TagsA1 /\ TagsNow = TagsA1
    /\ Exited /\ params.overwrite = "never"
    /\ NumCalls(TagWriteOps) = 0
    /\ NumCalls({"get_object_tagging"}) = 1
    /\ ~result.changed

\* C32 as stated: once the polling loop that follows a tag write is left, it
\* has fetched the tags 12 times at most and has slept once between two
\* fetches that follow each other: one time less than it fetched.
C32_SleepsBetweenFetches ==
    (PollsAfterWrite # {} /\ pc # "wait_tags_are_applied") =>
        /\ Cardinality(PollsAfterWrite) <= 12
        /\ frame.sleeps = Cardinality(PollsAfterWrite) - 1

---------------------------------------------------------------------------
(* Specification of create: a bucket alone or a virtual directory, run up to
   MaxRuns times in a row *)

\* The object parameter of a create: none, a key, a key that ends in "/"
CreateObjects == {"None", "k", "k/"}

\* The remote states a create may meet; obj is the object at the directory key.
CreateRemotes ==
    {Remote(FALSE, "None", FALSE, FALSE, NoObject, {}),
     Remote(TRUE, "None", TRUE, FALSE, NoObject, {})}
    \cup {Remote(TRUE, own, FALSE, hod, obj, {}) :
            own \in {"ObjectWriter", "BucketOwnerEnforced"}, hod \in BOOLEAN,
            obj \in {NoObject, Object("", "md5", 0)}}

InitCreate ==
    \E check \in BOOLEAN, ign \in BOOLEAN, perm \in Permissions \cup {<<>>} :
    \E obj \in CreateObjects, tc \in TagChoices, r \in CreateRemotes :
        Start([Request("create", check, "different", ign, FALSE, NoContent, perm,
                       tc[1], tc[2], tc[3]) EXCEPT !.object = obj],
              r, NoFile)

\* delete_object_tagging is out of a create's reach: the directory it tags is new
\* and has no tags to purge.
NextCreate ==
    \/ populate_facts
    \/ ValidateBucket_Exists
    \/ ValidateBucket_Ownership
    \/ ValidateBucket_Bucketrtn
    \/ Create_Begin
    \/ Create_KeyCheck
    \/ CreateBucket_Create
    \/ CreateBucket_Acl
    \/ CreateDirkey_Put
    \/ PutObjectAcl
    \/ EnsureTags_Fetch
    \/ EnsureTags_Put
    \/ WaitTags_Poll
    \/ PutDownloadUrl
    \/ Rerun

SpecCreate == InitCreate /\ [][NextCreate]_vars

---------------------------------------------------------------------------
(* Properties of create *)

\* The backend answered every call of the log as its state has it.
NoFault(log) == \A n \in 1..Len(log) : log[n].resp \notin FaultCodes

\* The invocation before this one found no bucket and created it.
CreatedBucketBefore ==
    /\ Len(history) = 1
    /\ history[1].calls[1] = Call("head_bucket", "", "404")
    /\ Done(history[1].calls, {"create_bucket"}) # {}

\* C7: a create with a bucket and no object is idempotent.  Run against no
\* bucket (outside check mode, every call answered) it creates the bucket with
\* one create_bucket and exits changed=true; the same invocation run next finds
\* the bucket, makes no create_bucket call and exits changed=false.
C7_CreateBucketTwice ==
    (params.mode = "create" /\ params.object = "None") =>
        /\ ( /\ history = <<>> /\ Ended /\ ~params.check_mode
             /\ calls # <<>> /\ calls[1] = Call("head_bucket", "", "404")
             /\ NoFault(calls) ) =>
               /\ Exited /\ result.changed
               /\ remote.bucketExists
               /\ Cardinality(Done(calls, {"create_bucket"})) = 1
        /\ CreatedBucketBefore =>
               /\ history[1].result.status = "exit" => history[1].result.changed
               /\ remote.bucketExists
               /\ NumCalls({"create_bucket"}) = 0
               /\ Exited => ~result.changed
               /\ (Ended /\ NoFault(calls)) => Exited

C7_Witness ==
    /\ params.mode = "create" /\ params.object = "None"
    /\ CreatedBucketBefore
    /\ history[1].result = ExitJson("Bucket created successfully", TRUE)
    /\ Exited
    /\ result = ExitJson("Bucket already exists.", FALSE)

\* C23 as stated: in put, create of a directory key and copy, outside check
\* mode, an exit that leaves the target object present has run the tag
\* convergence on it, which begins with a fetch of its tags.
C23_TagsConvergedBeforeSuccess ==
    (/\ params.mode \in {"put", "create", "copy"} /\ params.object # "None"
     /\ ~params.check_mode /\ Exited /\ remote.obj.exists)
        => NumCalls({"get_object_tagging"}) > 0

\* C39 as stated: once validation has found the bucket's ownership control to
\* be BucketOwnerEnforced, the invocation sends no canned ACL: it issues no
\* put_object_acl, and the extra arguments of its upload hold no ACL.
C39_NoAclWhenDisabled ==
    s3_vars.acl_disabled =>
        /\ NumCalls({"put_object_acl"}) = 0
        /\ \A n \in CallsOf(calls, TransferOps) : calls[n].arg = "None"

---------------------------------------------------------------------------
(* Specification of delete: a bucket with its keys, run up to MaxRuns times in
   a row *)

\* What a bucket that never had versioning may hold, and one that has it.
PlainEntries == {Entry(k, "null") : k \in {"p/1", "p/2", "p/3"}}
VersionedEntries ==
    PlainEntries \cup {Entry("p/1", "v1"), Entry("p/1", "m1"), Entry("p/2", "m1")}

DeleteRemotes ==
    {Remote(FALSE, "None", FALSE, FALSE, NoObject, {}),
     Remote(TRUE, "None", TRUE, FALSE, NoObject, {})}
    \cup {[Remote(TRUE, "ObjectWriter", FALSE, FALSE, NoObject, {})
             EXCEPT !.versions = S] : S \in SUBSET PlainEntries}
    \cup {[Remote(TRUE, "ObjectWriter", FALSE, FALSE, NoObject, {})
             EXCEPT !.versions = S, !.versioning = TRUE] :
            S \in SUBSET VersionedEntries}

InitDelete ==
    \E check \in BOOLEAN, ign \in BOOLEAN, obj \in {"None", "k"} :
    \E r \in DeleteRemotes :
        Start([Request("delete", check, "different", ign, FALSE, NoContent,
                       <<"private">>, FALSE, EmptyDict, TRUE)
                 EXCEPT !.object = obj],
              r, NoFile)

NextDelete ==
    \/ populate_facts
    \/ ValidateBucket_Exists
    \/ ValidateBucket_Ownership
    \/ ValidateBucket_Bucketrtn
    \/ DeleteBucket_Check
    \/ DeleteBucket_ListVersions
    \/ DeleteBucket_ListKeys
    \/ DeleteBucket_DeleteObjects
    \/ DeleteBucket_Delete
    \/ Rerun

SpecDelete == InitDelete /\ [][NextDelete]_vars

---------------------------------------------------------------------------
(* Properties of delete *)

DeleteOps == {"delete_objects", "delete_bucket"}

\* The identifiers the delete_objects calls of a log carried.
Submitted(log) ==
    UNION {{log[n].arg[i] : i \in 1..Len(log[n].arg)} :
              n \in Done(log, {"delete_objects"})}

\* The invocation before this one deleted the bucket.
DeletedBucketBefore ==
    /\ Len(history) = 1
    /\ Done(history[1].calls, {"delete_bucket"}) # {}

\* C8: a delete of a present bucket that never had versioning, with every call
\* answered, removes every key with delete_objects calls and then the bucket
\* with the last call, and exits changed=true; the delete invocation that
\* follows finds no bucket, makes no delete_objects or delete_bucket call and
\* exits with changed=false.
C8_DeleteBucketTwice ==
    params.mode = "delete" =>
        /\ ( /\ history = <<>> /\ Ended /\ ~params.check_mode
             /\ params.object = "None"
             /\ calls # <<>> /\ calls[1].resp = "200"
             /\ ~remote.versioning
             /\ NoFault(calls) ) =>
               /\ Exited /\ result.changed
               /\ ~remote.bucketExists /\ remote.versions = {}
               /\ Last(calls) = Call("delete_bucket", "", "200")
               /\ NumCalls({"delete_bucket"}) = 1
        /\ (Exited /\ result.changed /\ ~params.check_mode) =>
               ~remote.bucketExists /\ remote.versions = {}
        /\ DeletedBucketBefore =>
               /\ history[1].result = ExitJson("Bucket and all keys have been deleted.", TRUE)
               /\ ~remote.bucketExists
               /\ NumCalls(DeleteOps) = 0
               /\ Exited => ~result.changed
               /\ (Ended /\ NoFault(calls)) => Exited

C8_Witness ==
    /\ params.mode = "delete"
    /\ DeletedBucketBefore
    /\ ~remote.versioning
    /\ NoFault(history[1].calls)
    /\ {id.Key : id \in Submitted(history[1].calls)} = {"p/1", "p/2", "p/3"}
    /\ Cardinality(Done(history[1].calls, {"delete_objects"})) = 2
    /\ Exited /\ ~result.changed
    /\ NumCalls(DeleteOps) = 0

\* The entries the version listing has shown and that are still there.
ListedSoFar == {e \in remote.versions : Rank(e) <= frame.marker}

\* A delete of a bucket, outside check mode, whose version listing is answered.
VersionedDelete ==
    params.mode = "delete" /\ ~params.check_mode /\ ~frame.fallback

C29_Calls ==
    params.mode = "delete" =>
        /\ NumCalls({"delete_bucket"}) <= 1
        /\ \A n \in CallsOf(calls, {"delete_bucket"}) : n = Len(calls)

C29_Step ==
    VersionedDelete =>
        /\ (Issues("list_object_versions") /\ Last(calls').resp = "200") =>
              (pc' = "delete_objects") =
                  (VersionPage(remote.versions, frame.marker) # <<>>)
        /\ Issues("delete_objects") =>
              /\ Last(calls) = Call("list_object_versions", "", "200")
              /\ ListedSoFar # {}
              /\ Last(calls').arg =
                    [i \in 1..Cardinality(ListedSoFar) |->
                       IF i <= Cardinality({e \in ListedSoFar : e.IsDeleteMarker})
                       THEN LET e == InOrder({x \in ListedSoFar : x.IsDeleteMarker})[i]
                            IN [Key |-> e.Key, VersionId |-> e.VersionId]
                       ELSE LET e == InOrder({x \in ListedSoFar : ~x.IsDeleteMarker})
                                       [i - Cardinality({x \in ListedSoFar : x.IsDeleteMarker})]
                            IN [Key |-> e.Key, VersionId |-> e.VersionId]]
        /\ Issues("delete_bucket") =>
              /\ Last(calls).resp = "200"
              /\ Last(calls).op \in {"list_object_versions", "delete_objects"}
              /\ VersionsAfter(remote.versions, frame.marker) = {}
              /\ ListedSoFar = {}

\* C29: in a delete outside check mode whose version listing is answered, a
\* listed page that is not empty is followed at once by one delete_objects,
\* and an empty one by none; every delete_objects follows a listing and carries
\* the identifiers (Key, VersionId) of that page, delete markers first, and
\* nothing else; delete_bucket is issued once at most, as the last call, after
\* an answered call, when the listing has no entry left to show and every
\* entry it showed has been deleted.
C29_BatchPerPageThenBucket == []C29_Calls /\ [][C29_Step]_vars

\* A bucket with versions deleted in two batches of PageSize, delete markers
\* among them, then the bucket.
C29_Witness ==
    /\ VersionedDelete /\ Exited /\ result.changed
    /\ remote.versioning
    /\ NumCalls({"list_object_versions"}) = 2
    /\ NumCalls({"delete_objects"}) = 2
    /\ calls[CHOOSE n \in CallsOf(calls, {"delete_objects"}) : TRUE].arg[1].VersionId = "m1"
    /\ Last(calls) = Call("delete_bucket", "", "200")

\* The keys the plain listing has shown and that are still there.
ListedKeys ==
    {e \in CurrentKeys(remote.versions) : Rank(e) <= frame.marker}

C30_Step ==
    (params.mode = "delete" /\ ~params.check_mode) =>
        /\ (/\ Issues("list_object_versions")
             /\ Last(calls').resp \in {"NotImplemented", "AccessDenied"}) =>
              /\ pc' = "list_objects_v2"
              /\ result' = NoResult
              /\ frame'.fallback
        /\ (frame.fallback /\ Issues("delete_objects")) =>
              /\ ListedKeys # {}
              /\ Last(calls').arg = <<[Key |-> InOrder(ListedKeys)[1].Key]>>
        /\ (frame.fallback /\ Issues("delete_bucket")) =>
              /\ Last(calls).resp = "200"
              /\ Last(calls).op \in {"list_objects_v2", "delete_objects"}
              /\ CurrentKeys(remote.versions) = {}

\* C30: in a delete outside check mode, a NotImplemented or AccessDenied answer
\* to list_object_versions, on whichever page, does not end the invocation:
\* the plain listing follows; from then on every delete_objects carries one
\* identifier, the next key the plain listing showed, with no version id; and
\* delete_bucket is issued only after an answered call, when every key of the
\* plain listing has been submitted and deleted.
C30_FallbackToPlainListing == [][C30_Step]_vars

\* The version listing is refused on its second page, after a first batch with
\* version ids; the key that is left goes by its name alone, then the bucket.
C30_Witness ==
    /\ params.mode = "delete" /\ Exited /\ result.changed
    /\ frame.fallback
    /\ Len(calls) = 10
    /\ calls[5] = Call("list_object_versions", "", "200")
    /\ calls[6].op = "delete_objects" /\ Len(calls[6].arg) = PageSize
    /\ calls[7] = Call("list_object_versions", "", "AccessDenied")
    /\ calls[8] = Call("list_objects_v2", "", "200")
    /\ calls[9].op = "delete_objects" /\ calls[9].arg = <<[Key |-> "p/3"]>>
    /\ calls[10] = Call("delete_bucket", "", "200")

---------------------------------------------------------------------------
(* Specification of getstr *)

Versions == {"None", "v1"}

InitGetstr ==
    \E check \in BOOLEAN, ign \in BOOLEAN, ver \in Versions, sig \in BOOLEAN :
    \E r \in Remotes("different") :
        Start([Request("getstr", check, "different", ign, FALSE, NoContent,
                       <<"private">>, FALSE, EmptyDict, TRUE)
                 EXCEPT !.version = ver, !.sig_v4 = sig],
              r, NoFile)

NextGetstr ==
    \/ populate_facts
    \/ ValidateBucket_Exists
    \/ ValidateBucket_Ownership
    \/ ValidateBucket_Bucketrtn
    \/ Getstr_KeyCheck
    \/ Download_S3str
    \/ Rerun

SpecGetstr == InitGetstr /\ [][NextGetstr]_vars

---------------------------------------------------------------------------
(* Properties of getstr *)

\* The get_object calls of this invocation, in the order made.
Reads == InOrderOf(CallsOf(calls, {"get_object"}))

\* C12: in getstr mode, when the first get_object gets the Signature Version 4
\* fault, the handler connects again once, with sig_4 forced, and reads the same
\* key and version a second time; when that read is answered the invocation
\* exits with the object's contents and no failure.
C12_GetstrRetriesAfterSigv4 ==
    (params.mode = "getstr" /\ Len(Reads) >= 1
        /\ calls[Reads[1]].resp = "SignatureVersion4") =>
        /\ frame.reconnects = 1 /\ frame.sig_4
        /\ Len(Reads) <= 2
        /\ (pc = "download_s3str") = (Len(Reads) = 1)
        /\ Len(Reads) = 2 =>
              /\ calls[Reads[2]].arg = calls[Reads[1]].arg
              /\ calls[Reads[2]].arg =
                    [Key |-> params.object, VersionId |-> params.version]
              /\ Ended
              /\ calls[Reads[2]].resp = "200" =>
                    /\ Exited /\ result.changed
                    /\ result.contents = to_native(remote.obj.content)
                    /\ result.cause = "None"

C12_Witness ==
    /\ params.mode = "getstr" /\ params.version = "v1" /\ ~params.sig_v4
    /\ Len(Reads) = 2
    /\ calls[Reads[1]].resp = "SignatureVersion4"
    /\ calls[Reads[2]].resp = "200"
    /\ frame.reconnects = 1
    /\ Exited /\ result.contents = <<104, 233>>

---------------------------------------------------------------------------
(* Specification of the download: gets of a present object with overwrite=always,
   where every pass of the retry loop may fail *)

\* retries is any integer (argument_spec, line 1742): the negative ones too.
AnyRetries == (0 - 1)..MaxRetries

InitDownload ==
    \E check \in BOOLEAN, n \in AnyRetries, ign \in BOOLEAN, denied \in BOOLEAN :
    \E dest \in GetDests("always"), c \in Blobs :
        StartWith([Request("get", check, "always", ign, FALSE, NoContent,
                           <<"private">>, FALSE, EmptyDict, TRUE)
                     EXCEPT !.retries = n],
                  Remote(TRUE, "ObjectWriter", FALSE, denied,
                         Object(c, "md5", 0), {}),
                  dest, MaxRetries + 1)

NextDownload ==
    \/ populate_facts
    \/ ValidateBucket_Exists
    \/ ValidateBucket_Ownership
    \/ ValidateBucket_Bucketrtn
    \/ Get_KeyCheck
    \/ OtherDeletesObject
    \/ Download_GetObject
    \/ Download_File

SpecDownload == InitDownload /\ [][NextDownload]_vars

---------------------------------------------------------------------------
(* Properties of the download *)

\* The download_file calls of this invocation, and those that failed.
Attempts == CallsOf(calls, {"download_file"})
FailedAttempts == Attempts \ Done(calls, {"download_file"})

\* The invocation ended in the failure of a file transfer.
DownloadFailed ==
    /\ Ended /\ result.status = "fail"
    /\ result.msg \in {"Failed while downloading", "s3 download failed"}

\* C13: download_file is attempted at most retries+1 times; after a failed
\* attempt that is not number retries+1 the next attempt is due, the first
\* attempt to succeed ends the invocation in a success, and a failure is
\* reported, with the fault of the last attempt as its cause, exactly when
\* attempt number retries+1 has failed.
C13_AtMostRetriesPlusOne ==
    params.mode = "get" =>
        /\ Cardinality(Attempts) <= params.retries + 1
        /\ \A n \in Done(calls, {"download_file"}) :
             /\ n = Len(calls)
             /\ Exited /\ result.changed
             /\ result.msg = "GET operation complete"
        /\ (Attempts # {} /\ Attempts = FailedAttempts) =>
             IF Cardinality(Attempts) < params.retries + 1
             THEN pc = "download_file"
             ELSE DownloadFailed /\ result.cause = Last(calls).resp
        /\ DownloadFailed =>
             /\ Cardinality(FailedAttempts) = params.retries + 1
             /\ Last(calls).op = "download_file"

C13_Witness ==
    /\ params.mode = "get" /\ params.retries = 1
    /\ Cardinality(FailedAttempts) = 2
    /\ DownloadFailed
    /\ result.cause = "error"

\* C14 as stated: a fault of download_file that is not transient, here an
\* AccessDenied error, ends the invocation at once: it is the last call made,
\* whatever retries is.
C14_DeniedTransferNotRetried ==
    params.mode = "get" =>
        \A n \in Attempts :
            calls[n].resp = "AccessDenied" =>
                n = Len(calls) /\ Ended /\ result.status = "fail"

\* C20 as stated, for delete: a check-mode delete reports changed=true only
\* when the probe of the bucket found one; on a bucket the probe finds absent it
\* reports changed=false.
C20_CheckModeDeleteFollowsProbe ==
    (params.mode = "delete" /\ params.check_mode /\ Exited /\ result.changed) =>
        s3_vars.bucketrtn

GetSkipped ==
    result.msg \in
        {"Local object already exists and overwrite is disabled.",
         "Local and remote object are identical, ignoring. Use overwrite=always parameter to force.",
         "Local object is latest, ignoreing. Use overwrite=always parameter to force."}

\* C37 as stated: a get outside check mode ends without a failure only when the
\* overwrite policy spared the local file or a download_file call was
\* answered, whatever integer retries is.
C37_SuccessNeedsTransferOrSkip ==
    (params.mode = "get" /\ ~params.check_mode /\ Exited) =>
        GetSkipped \/ Done(calls, {"download_file"}) # {}

\* The download_file calls made after the connection was opened again: those
\* that follow the get_object answered with the Signature Version 4 fault.
AttemptsAfterReconnect ==
    {n \in Attempts :
        \E m \in CallsOf(calls, {"get_object"}) :
            m < n /\ calls[m].resp = "SignatureVersion4"}

\* C33 as stated: a get connects again for Signature Version 4 once at most and
\* reads the key twice at most; an invocation that connected again made its
\* second download pass, and that pass had the whole budget: it reports the
\* failure of the transfer only after retries+1 attempts of its own.
C33_ReconnectOnceFullBudget ==
    params.mode = "get" =>
        /\ frame.reconnects <= 1
        /\ NumCalls({"get_object"}) <= 2
        /\ (Ended /\ frame.reconnects = 1) =>
             /\ NumCalls({"get_object"}) = 2
             /\ DownloadFailed =>
                  Cardinality(AttemptsAfterReconnect) = params.retries + 1

---------------------------------------------------------------------------
(* Specification of copy *)

\* What the source of a copy holds.
CopySources == {NoObject} \cup {Object(c, kind, 0) : c \in Blobs, kind \in EtagKinds}

InitCopy ==
    \E check \in BOOLEAN, ign \in BOOLEAN, perm \in Permissions, tc \in TagChoices :
    \E src \in CopySources, r \in Remotes("different") :
        Start(Request("copy", check, "different", ign, FALSE, NoContent, perm,
                      tc[1], tc[2], tc[3]),
              [r EXCEPT !.src = src], NoFile)

NextCopy ==
    \/ populate_facts
    \/ ValidateBucket_Exists
    \/ ValidateBucket_Ownership
    \/ ValidateBucket_Bucketrtn
    \/ Copy_Begin
    \/ CreateBucket_Create
    \/ CreateBucket_Acl
    \/ Copy_KeyCheck
    \/ Copy_GetEtag
    \/ Copy_CopyObject
    \/ PutObjectAcl
    \/ EnsureTags_Fetch
    \/ EnsureTags_Put
    \/ EnsureTags_Delete
    \/ WaitTags_Poll
    \/ Copy_Exit

SpecCopy == InitCopy /\ [][NextCopy]_vars

---------------------------------------------------------------------------
(* Properties of copy *)

\* The copy ran to an exit_json of copy_object_to_bucket on a source it found.
CopyExited ==
    /\ params.mode = "copy" /\ ~params.check_mode /\ Exited
    /\ remote.src.exists

\* C22: in copy mode outside check mode, on a source object that exists, an
\* invocation that exits has compared the two ETags: when they are equal it has
\* issued no copy_object, has run the tag convergence (a tag fetch at least)
\* and reports changed iff a tag write was made; otherwise it has issued
\* exactly one copy_object, before every put_object_acl (one at least) and
\* every tagging call (one at least), the ACLs before the tags, and reports
\* changed.
C22_CopyByEtag ==
    CopyExited =>
        IF remote.src.ETag = frame.d_etag
        THEN /\ NumCalls({"copy_object"}) = 0
             /\ NumCalls({"get_object_tagging"}) > 0
             /\ result.changed = (NumCalls(TagWriteOps) > 0)
        ELSE /\ NumCalls({"copy_object"}) = 1
             /\ NumCalls({"put_object_acl"}) > 0
             /\ NumCalls({"get_object_tagging"}) > 0
             /\ Before({"copy_object"}, {"put_object_acl"} \cup TaggingOps)
             /\ Before({"put_object_acl"}, TaggingOps)
             /\ result.changed

\* A copy onto a destination with the source's ETag that only rewrote the tags.
C22_Witness ==
    /\ CopyExited
    /\ remote.src.ETag = frame.d_etag
    /\ NumCalls({"copy_object"}) = 0
    /\ NumCalls({"put_object_tagging"}) = 1
    /\ result.changed

\* C36 as stated: an invocation outside check mode that ends reporting
\* changed=false had none of its mutating remote calls answered.
C36_UnchangedMeansNoWrite ==
    (Exited /\ ~params.check_mode /\ ~result.changed) =>
        Done(calls, MutatingOps) = {}

---------------------------------------------------------------------------
(* Specification of the round trip: a put of an inline text, then a getstr of
   the same key *)

\* The texts of at most MaxLen code points, the empty one among them.
Texts == UNION {[1..n -> CodePoints] : n \in 0..MaxLen}

RoundTripRemotes ==
    {Remote(FALSE, "None", FALSE, FALSE, NoObject, {})}
    \cup {Remote(TRUE, "ObjectWriter", FALSE, FALSE, obj, {}) :
            obj \in {NoObject} \cup {Object(b, "md5", 0) : b \in Blobs}}

InitRoundTrip ==
    \E c \in Texts, ow \in {"always", "different", "never"} :
    \E r \in RoundTripRemotes :
        Start(Request("put", FALSE, ow, FALSE, FALSE, c, <<"private">>,
                      FALSE, EmptyDict, TRUE),
              r, NoFile)

NextRoundTrip ==
    \/ populate_facts
    \/ ValidateBucket_Exists
    \/ ValidateBucket_Ownership
    \/ ValidateBucket_Bucketrtn
    \/ Put_Begin
    \/ Put_KeyCheck
    \/ Put_Overwrite
    \/ Put_EtagCompare
    \/ CreateBucket_Create
    \/ CreateBucket_Acl
    \/ Upload
    \/ PutObjectAcl
    \/ EnsureTags_Fetch
    \/ GetDownloadUrl
    \/ PutDownloadUrl
    \/ Invoke_Getstr
    \/ Getstr_KeyCheck
    \/ Download_S3str

SpecRoundTrip == InitRoundTrip /\ [][NextRoundTrip]_vars

---------------------------------------------------------------------------
(* Properties of the round trip *)

\* The invocation before this one was a put that exited with its data on the
\* key: it uploaded them, or it found the key holding their fingerprint.
PutStored ==
    /\ Len(history) = 1
    /\ history[1].params.mode = "put"
    /\ history[1].result.status = "exit"
    /\ \/ Done(history[1].calls, TransferOps) # {}
       \/ history[1].params.overwrite = "different"

\* C25: a getstr that follows, with no write in between, a put of the inline
\* text c that stored its data, and that exits, returns contents equal to c,
\* code point for code point.
C25_PutGetstrRoundTrip ==
    (PutStored /\ params.mode = "getstr" /\ Exited)
        => result.contents = history[1].params.content

\* The round trip of a text whose code points take one, two and three bytes.
C25_Witness ==
    /\ PutStored /\ params.mode = "getstr" /\ Exited
    /\ Done(history[1].calls, TransferOps) # {}
    /\ history[1].params.content = <<233, 8364>>
    /\ remote.obj.content = <<195, 169, 226, 130, 172>>
    /\ result.contents = <<233, 8364>>

---------------------------------------------------------------------------
(* Specification of the alias reconciler *)

FunctionNames == {"fn-1", "f n"}
FunctionVersions == {0, 1}
Descriptions == {"None", "", "d1", "d2"}

\* The alias an invocation may meet.
Aliases ==
    {NoAlias} \cup {Alias(v, d) : v \in {"$LATEST", "1"}, d \in {"", "d1"}}

InitAlias ==
    \E check \in BOOLEAN, fn \in FunctionNames, v \in FunctionVersions :
    \E d \in Descriptions, state \in {"present", "absent"}, a \in Aliases :
        /\ params = [mode |-> "lambda_alias", check_mode |-> check,
                     state |-> state, function_name |-> fn, name |-> "a",
                     function_version |-> v, description |-> d]
        /\ remote = [alias |-> a]
        /\ s3_vars = NoVars
        /\ local_file = NoFile
        /\ pc = "validate_params"
        /\ frame = NoFrame
        /\ result = NoResult
        /\ calls = <<>>
        /\ warnings = {}
        /\ history = <<>>
        /\ faultsLeft = MaxFaults

NextAlias ==
    \/ Alias_ValidateParams
    \/ Alias_Get
    \/ Alias_Update
    \/ Alias_Create
    \/ Alias_Delete
    \/ Alias_Rerun

SpecAlias == InitAlias /\ [][NextAlias]_vars

---------------------------------------------------------------------------
(* Properties of the alias reconciler *)

AliasWrites == {"create_alias", "update_alias", "delete_alias"}

\* This invocation follows, with the same parameters, one that exited.
RerunOf(check) ==
    /\ Len(history) = 1
    /\ history[1].params.check_mode = check
    /\ [history[1].params EXCEPT !.check_mode = FALSE] = params
    /\ history[1].result.status = "exit"

\* C26 as stated: the invocation that follows, with the same parameters, one
\* that exited outside check mode issues no create_alias, update_alias or
\* delete_alias and, when it exits, reports changed=false.
C26_AliasIdempotent ==
    RerunOf(FALSE) =>
        /\ NumCalls(AliasWrites) = 0
        /\ Exited => ~result.changed

\* What the request asks to change of the alias there is.
NeedsChange ==
    IF params.state = "absent" THEN remote.alias.exists
    ELSE \/ ~remote.alias.exists
         \/ remote.alias.function_version # VersionString(params.function_version)
         \/ /\ params.description # "None"
            /\ remote.alias.description # params.description

\* C27: an invocation in check mode issues no create_alias, update_alias or
\* delete_alias; when it exits it reports changed iff the alias is to be
\* created, updated or deleted; and the same request run outside check mode
\* next, against the same alias, reports the same changed when it exits.
C27_AliasCheckMode ==
    /\ params.check_mode => NumCalls(AliasWrites) = 0
    /\ (params.check_mode /\ Exited) => result.changed = NeedsChange
    /\ (RerunOf(TRUE) /\ Exited) => result.changed = history[1].result.changed

\* A check-mode run that reported a change and made none, then the same
\* request outside check mode, which updated the alias.
C27_Witness ==
    /\ RerunOf(TRUE) /\ Exited
    /\ history[1].result.changed
    /\ history[1].calls = <<Call("get_alias", history[1].calls[1].arg, "200")>>
    /\ NumCalls({"update_alias"}) = 1
    /\ result.changed

---------------------------------------------------------------------------
(* Specification of two puts at once: two invocations put different contents
   at the same key of a present bucket, their remote calls interleaved *)

RaceOverwrites == {"never", "different", "always"}

InitRace ==
    \E ow1 \in RaceOverwrites, ow2 \in RaceOverwrites :
    \E obj \in {NoObject} \cup {Object(c, "md5", 0) : c \in Blobs} :
        /\ params = Request("put", FALSE, ow1, FALSE, FALSE, <<104, 233>>,
                            <<"private">>, FALSE, EmptyDict, TRUE)
        /\ history = <<Waiting(Request("put", FALSE, ow2, FALSE, FALSE, <<8364>>,
                                       <<"private">>, FALSE, EmptyDict, TRUE),
                               NoFile)>>
        /\ remote = Remote(TRUE, "ObjectWriter", FALSE, FALSE, obj, {})
        /\ s3_vars = NoVars
        /\ local_file = NoFile
        /\ pc = "populate_facts"
        /\ frame = NoFrame
        /\ result = NoResult
        /\ calls = <<>>
        /\ warnings = {}
        /\ faultsLeft = 0

NextRace ==
    \/ populate_facts
    \/ ValidateBucket_Exists
    \/ ValidateBucket_Ownership
    \/ ValidateBucket_Bucketrtn
    \/ Put_Begin
    \/ Put_KeyCheck
    \/ Put_Overwrite
    \/ Put_EtagCompare
    \/ Upload
    \/ PutObjectAcl
    \/ EnsureTags_Fetch
    \/ GetDownloadUrl
    \/ PutDownloadUrl
    \/ Switch

SpecRace == InitRace /\ [][NextRace]_vars

---------------------------------------------------------------------------
(* Properties of two puts at once *)

\* A transfer of the running invocation is answered: the object then holds what
\* this invocation sent, whatever it held and whoever put it there.
C34_Step ==
    (history' = history /\ Len(calls') = Len(calls) + 1
     /\ Last(calls').op \in TransferOps /\ Last(calls').resp = "200") =>
        remote'.obj.content = BytesIO(get_binary_content(params))

\* An invocation is about to transfer on the answer of its own probe, taken
\* when it was taken: with overwrite=never the probe saw no object.
C34_ActsOnProbe ==
    (pc = "upload_s3file" /\ params.overwrite = "never") => ~frame.keyrtn

\* C34: nothing protects the object between an invocation's probe and its
\* transfer.  A put transfers on what its own probe answered, and an answered
\* transfer leaves its content in the object whatever another invocation put
\* there since: the content that stays is that of the transfer answered last.
C34_LastWriterWins == []C34_ActsOnProbe /\ [][C34_Step]_vars

\* Two puts with overwrite=never both probed a key that was not there, both
\* transferred, and the object holds the content of this one, written over the
\* object the other created after this one's probe.
C34_Witness ==
    /\ Len(history) = 1
    /\ Exited /\ history[1].pc = "done" /\ history[1].result.status = "exit"
    /\ params.overwrite = "never" /\ history[1].params.overwrite = "never"
    /\ ~frame.keyrtn /\ ~history[1].frame.keyrtn
    /\ Done(calls, TransferOps) # {}
    /\ Done(history[1].calls, TransferOps) # {}
    /\ remote.obj.content = BytesIO(get_binary_content(params))
    /\ remote.obj.content # BytesIO(get_binary_content(history[1].params))

---------------------------------------------------------------------------
(* Specification of the read modes: get, getstr, geturl and list against every
   remote state, with a fault to come *)

ReadModes == {"get", "getstr", "geturl", "list"}

InitRead ==
    \E mode \in ReadModes, check \in BOOLEAN, ign \in BOOLEAN, n \in AnyRetries :
    \E ow \in {"always", "different"}, dest \in GetDests("different"),
       r \in Remotes("different") :
        Start([Request(mode, check, ow, ign, FALSE, NoContent, <<"private">>,
                       FALSE, EmptyDict, TRUE)
                 EXCEPT !.retries = IF mode = "get" THEN n ELSE 0],
              r, IF mode = "get" THEN dest ELSE NoFile)

NextRead ==
    \/ populate_facts
    \/ ValidateBucket_Exists
    \/ ValidateBucket_Ownership
    \/ ValidateBucket_Bucketrtn
    \/ Get_KeyCheck
    \/ Get_EtagCompare
    \/ Download_GetObject
    \/ Download_File
    \/ Getstr_KeyCheck
    \/ Download_S3str
    \/ Geturl_KeyCheck
    \/ Geturl_Tags
    \/ GetDownloadUrl
    \/ List_Begin
    \/ ListKeys

SpecRead == InitRead /\ [][NextRead]_vars

---------------------------------------------------------------------------
(* Properties of the read modes *)

\* C38: get, getstr, geturl and list issue no call that creates, overwrites or
\* deletes a bucket, an object, an ACL or a tag set, whatever the backend
\* answers, and no step of theirs changes the remote state.
C38_ReadModesLeaveRemote ==
    /\ [](params.mode \in ReadModes => NumCalls(MutatingOps) = 0)
    /\ [][params.mode \in ReadModes => remote' = remote]_vars

\* A geturl that found the key, read its tags and returned the URL.
C38_Witness ==
    /\ params.mode = "geturl" /\ ~params.check_mode
    /\ Exited /\ result.url = "get_object" /\ result.changed
    /\ NumCalls({"get_object_tagging"}) = 1
    /\ Last(calls) = Call("generate_presigned_url", "get_object", "200")

---------------------------------------------------------------------------
(* Specification of the permission check: puts whose permission list may hold
   a name that is no canned ACL *)

PermissionLists ==
    {<<"private">>, <<"log-delivery-write">>, <<"private", "log-delivery-write">>}

InitPermission ==
    \E check \in BOOLEAN, ign \in BOOLEAN, perm \in PermissionLists :
    \E exists \in BOOLEAN, own \in {"ObjectWriter", "BucketOwnerEnforced"} :
        Start(Request("put", check, "always", ign, FALSE, <<104, 233>>, perm,
                      FALSE, EmptyDict, TRUE),
              Remote(exists, IF exists THEN own ELSE "None", FALSE, FALSE,
                     NoObject, {}),
              NoFile)

NextPermission ==
    \/ populate_facts
    \/ ValidateBucket_Exists
    \/ ValidateBucket_Ownership
    \/ ValidateBucket_Bucketrtn
    \/ Put_Begin
    \/ Put_KeyCheck
    \/ Put_Overwrite
    \/ CreateBucket_Create
    \/ CreateBucket_Acl
    \/ Upload
    \/ PutObjectAcl
    \/ EnsureTags_Fetch
    \/ PutDownloadUrl

SpecPermission == InitPermission /\ [][NextPermission]_vars

---------------------------------------------------------------------------
(* Properties of the permission check *)

\* The permission list holds a name that is a canned ACL of neither kind.
UnknownPermission ==
    \E n \in 1..Len(params.permission) :
        /\ params.permission[n] \notin bucket_canned_acl
        /\ params.permission[n] \notin object_canned_acl

\* C40 as stated: a request whose permission list holds an unknown name never
\* leaves validation but to fail: its mode handler is not dispatched, it issues
\* no mutating remote call, it does not end in a success, and when the probe of
\* the bucket and the read of the ownership controls are answered it fails with
\* the unknown-permission error.
C40_UnknownPermissionRejected ==
    UnknownPermission =>
        /\ pc \in {"populate_facts", "validate_bucket", "ownership_controls",
                   "bucketrtn", "done"}
        /\ NumCalls(MutatingOps) = 0
        /\ ~Exited
        /\ (Ended /\ NoFaultIn(calls)) =>
               result = FailJson("Unknown permission specified")

=============================================================================
